---- MODULE Spec2Model ----
(***************************************************************************)
(* A model of the local LLM proxy: the OAuth token manager                 *)
(* (src/oauth_manager.py), the access gate and routes (src/proxy.py) and   *)
(* the streaming relay (src/request_handler.py).                           *)
(*                                                                         *)
(* The specifications of the module:                                       *)
(*   SpecOAuth    - request threads and refresh timers around OAuthManager *)
(*   SpecShutdown - the same, with destroy()                               *)
(*   SpecRefresh  - the refresh timers after one get_token(), with         *)
(*                  fairness                                               *)
(*   SpecGate     - one inbound HTTP call through its route                *)
(*   SpecMessages - one call to /v1/messages                               *)
(*   SpecNormalize - one call to /v1/chat/completions, under every setting *)
(*                  of the two normalizations                              *)
(*   SpecRelay    - generate(), the streaming relay of one upstream        *)
(*                  response                                               *)
(***************************************************************************)
EXTENDS Integers, Sequences, FiniteSets

(***************************************************************************)
(* Bounds of the model.                                                    *)
(***************************************************************************)
\* request threads calling get_token()
NumCallers == 2
\* get_token() calls in one run, over all request threads
MaxCalls == 2
\* the last instant of the clock
MaxTime == 2
\* events in one upstream stream
MaxEvents == 3
\* conversation messages in one call to /v1/messages
MaxMessages == 2

(***************************************************************************)
(* Program constants.  One unit of model time is 300 s.                    *)
(***************************************************************************)
\* refresh_buffer_minutes = 5, i.e. 300 s
RefreshBuffer == 1
\* token_data.get('expires_in', 3600), i.e. 3600 s
DefaultExpiresIn == 12
\* response.text[:200]: characters of the preview of an unparseable body
PreviewLimit == 200

VARIABLES
    now,            \* time.time()
    access_token,   \* OAuthManager._access_token
    expires_at,     \* OAuthManager._expires_at
    refresh_timer,  \* OAuthManager._refresh_timer: id of the Timer, 0 for None
    lock,           \* OAuthManager._lock: the thread holding it
    pc,             \* position of every request thread and every Timer thread
    fireAt,         \* the instant each Timer was started for
    reqlog,         \* per thread: the token requests of its current/last fetch
    ret,            \* per request thread: what its last get_token() returned
    obs,            \* observations over the run (counters and flags)
    \* one inbound HTTP call (src/proxy.py, src/request_handler.py)
    route,          \* the route the call arrived on
    header,         \* its Authorization header, '' when absent
    request_json,   \* what its JSON body carries
    request_data,   \* chat_completions(): request_data, the forwarded body
    placeholder,    \* config.use_placeholder_mode
    dev_mode,       \* DEV_MODE
    oauth_configured,    \* config.is_oauth_configured()
    api_key_configured,  \* config.is_api_key_configured()
    config_max_tokens,       \* config.max_tokens
    strip_zero_temperature,  \* config.strip_zero_temperature
    gpc,            \* position of the call in its route function
    did,            \* work done for the call: translation, credential, upstream
    posted,         \* calls of requests.post() to the target for the call
    resp,           \* the response: status, error kind and shape of the body
    anthropic_request,   \* anthropic_messages(): the body of the call
    openai_request,      \* anthropic_messages(): openai_request
    openai_data,         \* the JSON body the forwarding step answered with
    anthropic_response,  \* anthropic_messages(): anthropic_response
    logged,         \* calls of log_manager.log_api_call() for the call
    token,          \* what oauth_manager.get_token() returned for the call
    authorization,  \* the Authorization header of the forwarded request
    target,         \* what the POST to the target endpoint ended in
    response_data,  \* RequestHandler: the body handed to jsonify()
    \* generate(), the streaming relay of _forward_chat_request()
    events,         \* the events the upstream sends
    upstream,       \* lines of the upstream response not yet read
    up_open,        \* the upstream streaming connection is open
    client,         \* the client's connection
    rpc,            \* position of the generator
    chunk,          \* the line the generator is suspended with at its yield
    chunk_count,    \* generate(): chunk_count
    accumulated_tool_calls,  \* generate(): accumulated_tool_calls
    full_response_text,      \* generate(): full_response_text
    sent            \* lines written to the client

oauthVars == <<now, access_token, expires_at, refresh_timer, lock, pc, fireAt,
               reqlog, ret, obs>>
configVars == <<placeholder, dev_mode, oauth_configured, api_key_configured,
                config_max_tokens, strip_zero_temperature>>
gateVars == <<route, header, request_json, request_data, configVars, gpc, did,
              posted, resp,
              anthropic_request, openai_request, openai_data, anthropic_response,
              logged, token, authorization, target, response_data>>
relayVars == <<events, upstream, up_open, client, rpc, chunk, chunk_count,
               accumulated_tool_calls, full_response_text, sent>>
vars == <<oauthVars, gateVars, relayVars>>

(***************************************************************************)
(* Values.                                                                 *)
(***************************************************************************)
None == -1                 \* Python None, for _expires_at
Missing == -1              \* a key the token response does not carry
NotANumber == -2           \* an expires_in that is no number
NoToken == "None"          \* Python None, for _access_token
Token == "token"
\* token lifetimes below, at and above the refresh buffer
MaxExpiresIn == RefreshBuffer + 1
\* every get_token() call fetches at most once; refresh Timers add fetches
MaxFetches == MaxCalls + 1
\* every fetch starts at most one Timer
MaxTimers == MaxFetches

Callers == {<<"caller", i>> : i \in 1..NumCallers}
Timers == {<<"timer", k>> : k \in 1..MaxTimers}
Threads == Callers \cup Timers
NoThread == <<"none", 0>>
TimerOf(k) == <<"timer", k>>
IsCaller(h) == h[1] = "caller"

\* what a POST to the token endpoint can end in: a status ("neterr" is an
\* exception of requests.post: connection error or timeout) and, with a
\* 2xx status, the body
NoBody == [json |-> FALSE, tok |-> FALSE, expires_in |-> Missing]
Bodies ==
    {NoBody}
    \cup [json : {TRUE}, tok : BOOLEAN,
          expires_in : (0..MaxExpiresIn) \cup {Missing, NotANumber}]
Answers ==
    [status : {"400", "4xx5xx", "neterr"}, body : {NoBody}]
    \cup [status : {"2xx"}, body : Bodies]

Max(a, b) == IF a >= b THEN a ELSE b

(***************************************************************************)
(* OAuthManager (src/oauth_manager.py).                                    *)
(*                                                                         *)
(* Code that runs with the lock held and does not wait for the network     *)
(* takes no model time: a step is the code between two blocking points     *)
(* (the lock, a POST to the token endpoint, a Timer's wait).               *)
(***************************************************************************)

\* _needs_refresh()
NeedsRefresh ==
    IF expires_at = None \/ expires_at = 0
    THEN TRUE
    ELSE (expires_at - now) <= RefreshBuffer

\* get_token(): "if not self._access_token or self._needs_refresh()"
MustFetch_Always == TRUE
MustFetch == access_token = NoToken \/ NeedsRefresh

\* "with self._lock": threading.Lock is free
LockAvailable_Unlocked(h) == TRUE
LockAvailable_TimerBypass(h) == (~IsCaller(h)) \/ lock = NoThread
LockAvailable(h) == lock = NoThread

\* "if response.status_code == 400": retry with the credentials in the body
SecondAttempt_AnyError(status) == status \in {"400", "4xx5xx"}
SecondAttempt(status) == status = "400"

\* the first requests.post(..., auth=HTTPBasicAuth(...)) of _fetch_token()
FirstRequest == <<[auth |-> "basic", status |-> "pending"]>>

\* the answer to the request in flight is recorded
Answered(log, status) == [log EXCEPT ![Len(log)].status = status]

\* the second requests.post(...): client_id and client_secret in data, no auth
BodyRequest == [auth |-> "body", status |-> "pending"]

\* token_data.get('expires_in', 3600)
ExpiresIn(body) ==
    IF body.expires_in = Missing THEN DefaultExpiresIn ELSE body.expires_in

\* "if not response.ok: raise", response.json(), time.time() + expires_in:
\* does the answer take _fetch_token() to its end without an exception?
FetchSucceeds(status, body) ==
    status = "2xx" /\ body.json /\ body.expires_in # NotANumber

\* _schedule_refresh(): "if self._refresh_timer: self._refresh_timer.cancel()".
\* Timer.cancel() stops a Timer that is still waiting; it has no effect on
\* one whose function is already running.
CancelTimer_Never(p) == p
CancelTimer(p) ==
    IF refresh_timer # 0 /\ p[TimerOf(refresh_timer)] = "armed"
    THEN [p EXCEPT ![TimerOf(refresh_timer)] = "ended"]
    ELSE p

\* _schedule_refresh(): time_until_refresh, for the expiry just stored
ScheduleDelay_NoBuffer(exp) == Max(exp - now, 0)
ScheduleDelay(exp) == Max((exp - now) - RefreshBuffer, 0)

\* the instants of the Timers that are still waiting (a Timer that has run
\* or was cancelled no longer reads its interval)
Waiting(f, p) ==
    [k \in 1..MaxTimers |-> IF p[TimerOf(k)] = "armed" THEN f[k] ELSE 0]

\* where a thread is when its _fetch_token() has returned
Returned(h) == IF IsCaller(h) THEN "idle" ELSE "ended"

\* get_token(): "return self._access_token"
ReturnValue(h, tok, exp, how) ==
    IF IsCaller(h)
    THEN [ret EXCEPT ![h] = [val |-> tok,
                             fresh |-> exp # None /\ (exp - now) > RefreshBuffer,
                             how |-> how]]
    ELSE ret

\* get_token() is called: the thread reaches "with self._lock"
GetTokenCall(c) ==
    /\ pc[c] = "idle"
    /\ obs.calls < MaxCalls
    /\ pc' = [pc EXCEPT ![c] = "wait"]
    /\ obs' = [obs EXCEPT
                 !.calls = @ + 1,
                 !.overlap = @ /\ (\A d \in Callers : ret[d].how = "none"),
                 !.lastFailed = FALSE,
                 !.later = @ \/ obs.destroyed]
    /\ UNCHANGED <<now, access_token, expires_at, refresh_timer, lock, fireAt,
                   reqlog, ret>>

\* get_token() obtains the lock and finds a token that needs no refresh
GetTokenCached(c) ==
    /\ pc[c] = "wait"
    /\ LockAvailable(c)
    /\ ~MustFetch
    /\ pc' = [pc EXCEPT ![c] = "idle"]
    /\ ret' = ReturnValue(c, access_token, expires_at, "cached")
    /\ UNCHANGED <<now, access_token, expires_at, refresh_timer, lock, fireAt,
                   reqlog, obs>>

\* get_token() obtains the lock and calls _fetch_token(): the first POST
GetTokenFetch(c) ==
    /\ pc[c] = "wait"
    /\ LockAvailable(c)
    /\ MustFetch
    /\ obs.fetches < MaxFetches
    /\ lock' = c
    /\ pc' = [pc EXCEPT ![c] = "req1"]
    /\ reqlog' = [reqlog EXCEPT ![c] = FirstRequest]
    /\ obs' = [obs EXCEPT !.fetches = @ + 1, !.demand = @ + 1,
                 !.cause = @ \/ (access_token # NoToken /\ NeedsRefresh)]
    /\ UNCHANGED <<now, access_token, expires_at, refresh_timer, fireAt, ret>>

\* threading.Timer: the interval has passed and the Timer was not cancelled;
\* _refresh_token() starts and reaches "with self._lock"
TimerFire(k) ==
    /\ pc[TimerOf(k)] = "armed"
    /\ now >= fireAt[k]
    /\ pc' = [pc EXCEPT ![TimerOf(k)] = "wait"]
    /\ fireAt' = [fireAt EXCEPT ![k] = 0]
    /\ UNCHANGED <<now, access_token, expires_at, refresh_timer, lock, reqlog,
                   ret, obs>>

\* _refresh_token() obtains the lock and calls _fetch_token(): the first POST
RefreshToken(k) ==
    /\ pc[TimerOf(k)] = "wait"
    /\ LockAvailable(TimerOf(k))
    /\ obs.fetches < MaxFetches
    /\ lock' = TimerOf(k)
    /\ pc' = [pc EXCEPT ![TimerOf(k)] = "req1"]
    /\ reqlog' = [reqlog EXCEPT ![TimerOf(k)] = FirstRequest]
    /\ obs' = [obs EXCEPT !.fetches = @ + 1]
    /\ UNCHANGED <<now, access_token, expires_at, refresh_timer, fireAt, ret>>

\* _fetch_token(), lines 105-112: the token and its expiry are stored and
\* _schedule_refresh() starts the next Timer; then the lock is released
\* and get_token() returns
FetchStore(h, body) ==
    LET tok == IF body.tok THEN Token ELSE NoToken
        exp == now + ExpiresIn(body)
        k == refresh_timer + 1
    IN /\ access_token' = tok
       /\ expires_at' = exp
       /\ IF exp = 0
          THEN /\ pc' = [CancelTimer(pc) EXCEPT ![h] = Returned(h)]
               /\ refresh_timer' = refresh_timer
               /\ fireAt' = Waiting(fireAt, pc')
          ELSE /\ pc' = [CancelTimer(pc) EXCEPT ![h] = Returned(h),
                                                ![TimerOf(k)] = "armed"]
               /\ refresh_timer' = k
               /\ fireAt' = [Waiting(fireAt, pc') EXCEPT
                                ![k] = now + ScheduleDelay(exp)]
       /\ reqlog' = [reqlog EXCEPT ![h] = <<>>]
       /\ lock' = NoThread
       /\ ret' = ReturnValue(h, access_token', expires_at', "fetched")
       /\ obs' = [obs EXCEPT !.cause = @ \/ ~body.tok,
                              !.tokenless = @ \/ ~body.tok,
                              !.lastFailed = FALSE]
       /\ UNCHANGED now

\* _fetch_token(), lines 114-117: any exception clears the token and the
\* expiry; then the lock is released and get_token() returns
FetchFail_KeepExpiry(h) ==
    /\ access_token' = NoToken
    /\ expires_at' = expires_at
    /\ pc' = [pc EXCEPT ![h] = Returned(h)]
    /\ reqlog' = [reqlog EXCEPT ![h] = <<>>]
    /\ lock' = NoThread
    /\ ret' = ReturnValue(h, access_token', expires_at', "failed")
    /\ obs' = [obs EXCEPT !.cause = TRUE, !.lastFailed = TRUE]
    /\ UNCHANGED <<now, refresh_timer, fireAt>>
FetchFail(h) ==
    /\ access_token' = NoToken
    /\ expires_at' = None
    /\ pc' = [pc EXCEPT ![h] = Returned(h)]
    /\ reqlog' = [reqlog EXCEPT ![h] = <<>>]
    /\ lock' = NoThread
    /\ ret' = ReturnValue(h, access_token', expires_at', "failed")
    /\ obs' = [obs EXCEPT !.cause = TRUE, !.lastFailed = TRUE]
    /\ UNCHANGED <<now, refresh_timer, fireAt>>

\* the token endpoint answers the first POST (Basic authentication)
FirstAnswer(h, status, body) ==
    /\ pc[h] = "req1"
    /\ IF SecondAttempt(status)
       THEN /\ pc' = [pc EXCEPT ![h] = "req2"]
            /\ reqlog' = [reqlog EXCEPT ![h] = Append(Answered(@, status), BodyRequest)]
            /\ UNCHANGED <<now, access_token, expires_at, refresh_timer, lock,
                           fireAt, ret, obs>>
       ELSE IF FetchSucceeds(status, body)
            THEN FetchStore(h, body)
            ELSE FetchFail(h)

\* the token endpoint answers the second POST (credentials in the body)
SecondAnswer(h, status, body) ==
    /\ pc[h] = "req2"
    /\ IF FetchSucceeds(status, body)
       THEN FetchStore(h, body)
       ELSE FetchFail(h)

\* destroy(): "if self._refresh_timer: self._refresh_timer.cancel()"; the
\* lock is not taken and nothing else is changed
Destroy ==
    /\ ~obs.destroyed
    /\ pc' = CancelTimer(pc)
    /\ fireAt' = Waiting(fireAt, pc')
    /\ obs' = [obs EXCEPT !.destroyed = TRUE]
    /\ UNCHANGED <<now, access_token, expires_at, refresh_timer, lock, reqlog,
                   ret>>

\* time passes
Tick ==
    /\ now < MaxTime
    /\ now' = now + 1
    /\ UNCHANGED <<access_token, expires_at, refresh_timer, lock, pc, fireAt,
                   reqlog, ret, obs>>

\* OAuthManager.__init__(): no token, no expiry, no Timer, the lock free
InitOAuth ==
    /\ now = 1
    /\ access_token = NoToken
    /\ expires_at = None
    /\ refresh_timer = 0
    /\ lock = NoThread
    /\ pc = [h \in Threads |-> IF IsCaller(h) THEN "idle" ELSE "unused"]
    /\ fireAt = [k \in 1..MaxTimers |-> 0]
    /\ reqlog = [h \in Threads |-> <<>>]
    /\ ret = [c \in Callers |-> [val |-> NoToken, fresh |-> FALSE, how |-> "none"]]
    /\ obs = [calls |-> 0, fetches |-> 0, demand |-> 0, cause |-> FALSE,
              tokenless |-> FALSE, overlap |-> TRUE, lastFailed |-> FALSE,
              destroyed |-> FALSE, later |-> FALSE]


(***************************************************************************)
(* The access gate and the routes (src/proxy.py), and the route functions  *)
(* of RequestHandler (src/request_handler.py), for one inbound call.       *)
(* A header, and every other string that is taken apart or put together,   *)
(* is the sequence of its characters.                                      *)
(***************************************************************************)

\* 'Bearer '
BearerPrefix == <<"B", "e", "a", "r", "e", "r", " ">>
\* config.proxy_access_token
GatewaySecret == <<"k", "1">>

\* Authorization headers a client can send; <<>> is the absent header,
\* read as '' by request.headers.get('Authorization', '')
Headers ==
    { <<>>,
      BearerPrefix \o GatewaySecret,
      BearerPrefix \o <<"k", "2">>,
      BearerPrefix \o <<"k">>,
      BearerPrefix \o GatewaySecret \o <<"x">>,
      BearerPrefix,
      <<"b", "e", "a", "r", "e", "r", " ">> \o GatewaySecret,
      <<"B", "e", "a", "r", "e", "r">> \o GatewaySecret,
      <<"B", "a", "s", "i", "c", " ">> \o GatewaySecret,
      GatewaySecret }

SecuredRoutes == {"list_models", "get_model", "chat_completions", "completions",
                  "messages"}
Routes == SecuredRoutes \cup {"health", "config"}

\* config.default_model, and another model a call can name
DefaultModel == "gpt-4"
ModelIds == {DefaultModel, "gpt-4o"}

\* what the JSON body of the call carries; present = FALSE is the empty body.
\* "object": the body is a JSON object; "model_id": the model it names
\* (DefaultModel when it names none); "dicts": the items of its "messages"
\* are JSON objects; "max_tokens" and "temperature": the value of the key,
\* Missing without the key, NotANumber for a JSON null
NoJson ==
    [present |-> FALSE, object |-> FALSE, model |-> FALSE,
     model_id |-> DefaultModel, messages |-> FALSE, dicts |-> TRUE,
     stream |-> FALSE, max_tokens |-> Missing, temperature |-> Missing]
\* a JSON array with an item
ListJson == [NoJson EXCEPT !.present = TRUE]
RequestBodies ==
    {NoJson, ListJson}
    \cup {b \in [present : {TRUE}, object : {TRUE}, model : BOOLEAN,
                 model_id : ModelIds, messages : BOOLEAN, dicts : BOOLEAN,
                 stream : BOOLEAN, max_tokens : {Missing},
                 temperature : {Missing}] :
            /\ (b.model_id # DefaultModel) => (b.model /\ b.messages /\ b.dicts)
            /\ (~b.messages) => b.dicts}

(***************************************************************************)
(* The body of a call to /v1/messages.                                     *)
(***************************************************************************)

\* a content block, or an item of a system list: its "type", and its "text"
\* when it has that key
Block(type, hasText, text) == [type |-> type, hasText |-> hasText, text |-> text]
TextBlock(t) == Block("text", TRUE, t)
ImageBlock == Block("image", FALSE, <<>>)

\* a "content" or "system" value: a string, a list of blocks, or no such key
NoContent == [kind |-> "absent", text |-> <<>>, blocks |-> <<>>]
StrContent(t) == [kind |-> "str", text |-> t, blocks |-> <<>>]
ListContent(bs) == [kind |-> "list", text |-> <<>>, blocks |-> bs]

Message(role, content) == [role |-> role, content |-> content]

Hi == <<"h", "i">>
X == <<"X">>
Newline == "\n"

\* conversation messages a client can send
Messages ==
    { Message("user", StrContent(Hi)),
      Message("assistant", StrContent(X)),
      Message("user", StrContent(<<" ">>)),
      Message("user", NoContent),
      Message("user", ListContent(<<ImageBlock>>)),
      Message("user", ListContent(<<TextBlock(Hi), ImageBlock, TextBlock(X)>>)),
      Message("assistant", ListContent(<<Block("tool_use", TRUE, X), TextBlock(Hi)>>)),
      Message("user", ListContent(<<Block("text", FALSE, <<>>), TextBlock(<<>>)>>)) }

\* system fields a client can send
Systems ==
    { NoContent,
      StrContent(X),
      ListContent(<<TextBlock(X), TextBlock(Hi)>>),
      ListContent(<<TextBlock(Hi), Block("text", FALSE, <<>>), TextBlock(X)>>) }

\* the optional parameters: Missing is a key the body does not carry,
\* NotANumber a JSON null; "stream" is absent, true or false
NoParams ==
    [max_tokens |-> Missing, temperature |-> Missing, top_p |-> Missing,
     stream |-> "absent", stop_sequences |-> Missing]
Params ==
    [max_tokens : {Missing, 0, 5}, temperature : {Missing, NotANumber, 0, 1},
     top_p : {Missing, 1}, stream : {"absent", "true", "false"},
     stop_sequences : {Missing, 1}]

AnthropicRequest(system, messages, params) ==
    [system |-> system, messages |-> messages, params |-> params]
NoAnthropic == AnthropicRequest(NoContent, <<>>, NoParams)

RECURSIVE SeqsUpTo(_, _)
SeqsUpTo(S, n) ==
    IF n = 0 THEN {<<>>}
    ELSE LET shorter == SeqsUpTo(S, n - 1)
         IN shorter \cup {Append(q, x) : q \in shorter, x \in S}

\* bodies of calls to /v1/messages: every system field with every list of
\* messages, and every choice of optional parameters with and without a
\* message
AnthropicRequests ==
    {AnthropicRequest(s, ms, NoParams) :
        s \in Systems, ms \in SeqsUpTo(Messages, MaxMessages)}
    \cup {AnthropicRequest(NoContent, ms, p) :
        ms \in {<<>>, <<Message("user", StrContent(Hi))>>}, p \in Params}

\* a few of them, for the calls that arrive with any header
SampleRequests ==
    { AnthropicRequest(StrContent(X), <<Message("user", StrContent(Hi))>>, NoParams),
      AnthropicRequest(NoContent, <<Message("user", ListContent(<<ImageBlock>>))>>,
                       NoParams),
      AnthropicRequest(NoContent, <<Message("user", StrContent(Hi))>>,
                       [NoParams EXCEPT !.stream = "true"]),
      AnthropicRequest(NoContent, <<Message("user", StrContent(Hi))>>,
                       [NoParams EXCEPT !.temperature = NotANumber]) }

\* the text parts of a content list: block.get("text", "") of every block
\* with block.get("type") == "text"
RECURSIVE TextParts_AnyType(_)
TextParts_AnyType(blocks) ==
    IF blocks = <<>> THEN <<>>
    ELSE <<Head(blocks).text>> \o TextParts_AnyType(Tail(blocks))
RECURSIVE TextParts(_)
TextParts(blocks) ==
    IF blocks = <<>> THEN <<>>
    ELSE (IF Head(blocks).type = "text" THEN <<Head(blocks).text>> ELSE <<>>)
         \o TextParts(Tail(blocks))

\* "\n".join(text_parts)
RECURSIVE JoinLines(_)
JoinLines(parts) ==
    IF parts = <<>> THEN <<>>
    ELSE IF Len(parts) = 1 THEN Head(parts)
    ELSE Head(parts) \o <<Newline>> \o JoinLines(Tail(parts))

\* lines 255-259: the content of a message, a list reduced to its text
Reduce(content) ==
    IF content.kind = "list" THEN JoinLines(TextParts(content.blocks))
    ELSE content.text

\* line 262: "not content or not content.strip()"
IsEmpty_NoStrip(text) == text = <<>>
IsEmpty(text) == \A i \in 1..Len(text) : text[i] \in {" ", Newline}

\* lines 244-251: the system messages
RECURSIVE SystemBlocks(_)
SystemBlocks(blocks) ==
    IF blocks = <<>> THEN <<>>
    ELSE (IF Head(blocks).hasText
          THEN <<[role |-> "system", content |-> Head(blocks).text]>>
          ELSE <<>>)
         \o SystemBlocks(Tail(blocks))
SystemMessages(system) ==
    IF system.kind = "str" THEN <<[role |-> "system", content |-> system.text]>>
    ELSE IF system.kind = "list" THEN SystemBlocks(system.blocks)
    ELSE <<>>

\* lines 254-269: the conversation messages, the empty ones skipped
RECURSIVE ConversationMessages(_)
ConversationMessages(msgs) ==
    IF msgs = <<>> THEN <<>>
    ELSE (IF IsEmpty(Reduce(Head(msgs).content))
          THEN <<>>
          ELSE <<[role |-> Head(msgs).role, content |-> Reduce(Head(msgs).content)]>>)
         \o ConversationMessages(Tail(msgs))

\* lines 241-269: messages
TranslatedMessages_SystemLast(req) ==
    ConversationMessages(req.messages) \o SystemMessages(req.system)
TranslatedMessages(req) ==
    SystemMessages(req.system) \o ConversationMessages(req.messages)

\* lines 301-306: temperature is copied when it is above 0
CopiedTemperature_Always(temp) == temp
CopiedTemperature(temp) == IF temp > 0 THEN temp ELSE Missing

\* line 305 compares a JSON null with 0: TypeError
TranslationRaises(req) == req.params.temperature = NotANumber

\* lines 291-313: openai_request
NoOpenAI ==
    [messages |-> <<>>, max_tokens |-> Missing, temperature |-> Missing,
     top_p |-> Missing, stream |-> "absent", stop |-> Missing]
OpenAIRequest(req) ==
    [messages |-> TranslatedMessages(req),
     max_tokens |-> req.params.max_tokens,
     temperature |-> CopiedTemperature(req.params.temperature),
     top_p |-> req.params.top_p,
     stream |-> req.params.stream,
     stop |-> req.params.stop_sequences]

(***************************************************************************)
(* The responses.                                                          *)
(***************************************************************************)

\* what the POST to the target endpoint can end in: an exception of
\* requests.post (connection error or timeout), or a response with its
\* status, whether response.json() parses its body, and response.text
JsonText == <<"{", "}">>
Oops == <<"o", "o", "p", "s">>
LongText == [i \in 1..(PreviewLimit + 1) |-> "a"]
RawTexts == {<<>>, Oops, LongText}
Statuses == {200, 304, 404, 503}
NoTarget == [kind |-> "none", status |-> 0, json |-> FALSE, text |-> <<>>]
NetworkError == [NoTarget EXCEPT !.kind = "neterr"]
UpstreamResponse(status, json, text) ==
    [kind |-> "response", status |-> status, json |-> json, text |-> text]
UpstreamOutcomes ==
    {NetworkError}
    \cup {UpstreamResponse(st, TRUE, JsonText) : st \in Statuses}
    \cup {UpstreamResponse(st, FALSE, t) : st \in Statuses, t \in RawTexts}

\* requests: Response.ok, "if not response.ok" (lines 206 and 419)
Ok(status) == status < 400

\* a response: its status, the kind of its error ("ok" and "stream" for a
\* 200) and the shape of its body: {error: {...}} is "openai",
\* {type: "error", error: {...}} is "anthropic", the body of the upstream
\* handed on is "passthrough"
NoResponse == [status |-> 0, kind |-> "none", shape |-> "none"]
Response(status, kind, shape) == [status |-> status, kind |-> kind, shape |-> shape]

\* an exception that leaves the route function: chat_completions() and
\* completions() of src/proxy.py have no try, Flask answers 500 with its
\* own page
Unhandled == Response(500, "unhandled", "html")

\* the body handed to jsonify(): the JSON of the target as it was parsed, an
\* {"error": {...}} with its "type", "message" and "response_preview" (the
\* keys it lacks are Absent), or a body built by the gateway
NoResponseData == [is |-> "none"]
JsonData(text) == [is |-> "json", value |-> text]
StreamData == [is |-> "stream"]
ErrorData(type, message, preview) ==
    [is |-> "error", type |-> type, message |-> message, preview |-> preview]
NoKey == <<"absent">>
ConnectionError ==
    ErrorData("connection_error", <<"Failed to connect to target endpoint">>, NoKey)
InvalidRequest(param) ==
    ErrorData("invalid_request_error", <<"you must provide a parameter", param>>,
              NoKey)

\* line 364: response.text[:200]
Preview(text) ==
    SubSeq(text, 1, IF Len(text) < PreviewLimit THEN Len(text) ELSE PreviewLimit)

\* line 211: response.text or "Empty response from target";
\* line 423: response.text
EmptyResponseText == <<"Empty response from target">>
ErrorMessage(text) ==
    IF route # "completions" /\ text = <<>> THEN EmptyResponseText ELSE text

\* one element of "choices": message.content and finish_reason ("missing"
\* for a choice without the key, "null" for a JSON null)
Choice(content, finish_reason) == [content |-> content, finish_reason |-> finish_reason]
FinishReasons ==
    {"stop", "length", "content_filter", "tool_calls", "function_call", "null",
     "missing"}

\* the JSON body of a 2xx answer to a chat request: "id" (its characters,
\* the text chatcmpl- taken as one), "choices" and "usage" when it has them
ChatPrefix == "chatcmpl-"
MsgPrefix == "msg_"
NoData ==
    [present |-> FALSE, hasId |-> FALSE, id |-> <<>>, hasChoices |-> FALSE,
     choices |-> <<>>, hasUsage |-> FALSE, prompt_tokens |-> 0,
     completion_tokens |-> 0]
Completion(id, choices, prompt_tokens, completion_tokens) ==
    [present |-> TRUE, hasId |-> TRUE, id |-> id, hasChoices |-> TRUE,
     choices |-> choices, hasUsage |-> TRUE, prompt_tokens |-> prompt_tokens,
     completion_tokens |-> completion_tokens]
OpenAIBodies ==
    {Completion(<<ChatPrefix, "7">>, <<Choice(Hi, f)>>, 3, 4) : f \in FinishReasons}
    \cup {Completion(id, <<Choice(X, "stop"), Choice(Hi, "length")>>, 1, 2) :
            id \in {<<ChatPrefix, "7">>, <<"g", "7">>}}
    \cup {[Completion(<<ChatPrefix, "7">>, <<Choice(Hi, "stop")>>, 3, 4)
              EXCEPT !.hasId = FALSE, !.id = <<>>],
          [Completion(<<ChatPrefix, "7">>, <<Choice(Hi, "stop")>>, 3, 4)
              EXCEPT !.hasUsage = FALSE],
          [Completion(<<ChatPrefix, "7">>, <<>>, 3, 4)
              EXCEPT !.hasChoices = FALSE],
          Completion(<<ChatPrefix, "7">>, <<>>, 3, 4)}

\* _placeholder_chat_response(): the body of the synthetic answer, as the
\* conversion of /v1/messages reads it
PlaceholderBody ==
    Completion(<<ChatPrefix, "p">>, <<Choice(<<"p">>, "stop")>>, 10, 20)

\* f"chatcmpl-{uuid.uuid4().hex[:24]}" and int(time.time())
CompletionIds == {<<ChatPrefix, "p">>, <<ChatPrefix, "q">>}
Created == {1, 2}

\* _placeholder_chat_response(), lines 554-572: the non-streaming body
PlaceholderChatResponse_TwoChoices(id, created, model) ==
    [is |-> "completion", id |-> id, object |-> "chat.completion",
     created |-> created, model |-> model,
     choices |-> <<[index |-> 0, role |-> "assistant", content |-> <<"p">>,
                    finish_reason |-> "stop"],
                   [index |-> 1, role |-> "assistant", content |-> <<"p">>,
                    finish_reason |-> "stop"]>>,
     usage |-> [prompt_tokens |-> 10, completion_tokens |-> 20,
                total_tokens |-> 30]]
PlaceholderChatResponse(id, created, model) ==
    [is |-> "completion", id |-> id, object |-> "chat.completion",
     created |-> created, model |-> model,
     choices |-> <<[index |-> 0, role |-> "assistant", content |-> <<"p">>,
                    finish_reason |-> "stop"]>>,
     usage |-> [prompt_tokens |-> 10, completion_tokens |-> 20,
                total_tokens |-> 30]]

\* _placeholder_completion_response(), lines 584-600
PlaceholderCompletionResponse(id, created, model) ==
    [is |-> "completion", id |-> id, object |-> "text_completion",
     created |-> created, model |-> model,
     choices |-> <<[index |-> 0, text |-> <<"p">>, finish_reason |-> "stop"]>>,
     usage |-> [prompt_tokens |-> 5, completion_tokens |-> 10,
                total_tokens |-> 15]]

\* lines 330-335: finish_reason_map.get(choice.get("finish_reason", "stop"),
\* "end_turn")
StopReason_Same(finish_reason) == finish_reason
StopReason(finish_reason) ==
    LET fr == IF finish_reason = "missing" THEN "stop" ELSE finish_reason
    IN IF fr = "stop" THEN "end_turn"
       ELSE IF fr = "length" THEN "max_tokens"
       ELSE IF fr = "content_filter" THEN "stop_sequence"
       ELSE "end_turn"

\* line 338: .replace("chatcmpl-", "msg_")
RECURSIVE RewriteId(_)
RewriteId(id) ==
    IF id = <<>> THEN <<>>
    ELSE <<IF Head(id) = ChatPrefix THEN MsgPrefix ELSE Head(id)>>
         \o RewriteId(Tail(id))

\* line 326: openai_data.get("choices", [{}])[0] of an empty list: IndexError
ConversionRaises(data) == data.hasChoices /\ data.choices = <<>>

\* lines 326-348: anthropic_response
NoMessage ==
    [id |-> <<>>, role |-> "none", content |-> <<>>, stop_reason |-> "none",
     input_tokens |-> 0, output_tokens |-> 0]
FirstChoice_Last(data) ==
    IF data.hasChoices THEN data.choices[Len(data.choices)]
    ELSE Choice(<<>>, "missing")
FirstChoice(data) ==
    IF data.hasChoices THEN data.choices[1] ELSE Choice(<<>>, "missing")
AnthropicResponse(data) ==
    LET choice == FirstChoice(data)
    IN [id |-> IF data.hasId THEN RewriteId(data.id) ELSE <<"msg_unknown">>,
        role |-> "assistant",
        content |-> <<[type |-> "text", text |-> choice.content]>>,
        stop_reason |-> StopReason(choice.finish_reason),
        input_tokens |-> IF data.hasUsage THEN data.prompt_tokens ELSE 0,
        output_tokens |-> IF data.hasUsage THEN data.completion_tokens ELSE 0]

\* str.startswith
StartsWith(str, prefix) ==
    /\ Len(str) >= Len(prefix)
    /\ SubSeq(str, 1, Len(prefix)) = prefix

\* verify_access_token(): the header has the bearer form and the value after
\* 'Bearer ' (auth_header[7:]) is config.proxy_access_token
Authorized_PrefixOnly(h) == StartsWith(h, BearerPrefix)
Authorized(h) ==
    /\ StartsWith(h, BearerPrefix)
    /\ SubSeq(h, Len(BearerPrefix) + 1, Len(h)) = GatewaySecret

\* the first lines of every bearer-secured route:
\* "valid, error = verify_access_token(); if not valid: return jsonify(error), 401"
VerifyAccessToken ==
    /\ gpc = "start"
    /\ route \in SecuredRoutes
    /\ IF Authorized(header)
       THEN /\ gpc' = "handler"
            /\ resp' = resp
       ELSE /\ gpc' = "done"
            /\ resp' = Response(401, "invalid_request_error", "openai")
    /\ UNCHANGED <<route, header, posted, request_json, request_data, anthropic_request,
                   configVars,
                   did, openai_request, openai_data, anthropic_response, logged,
                   token, authorization, target, response_data>>

\* health_check(): no gate
HealthCheck ==
    /\ gpc = "start"
    /\ route = "health"
    /\ gpc' = "done"
    /\ resp' = Response(200, "ok", "health")
    /\ UNCHANGED <<route, header, posted, request_json, request_data, anthropic_request,
                   configVars,
                   did, openai_request, openai_data, anthropic_response, logged,
                   token, authorization, target, response_data>>

\* get_config(), the body of GET /api/config: 'accessToken' is
\* config.proxy_access_token
ConfigData == [is |-> "config", accessToken |-> GatewaySecret]

\* get_config(): no gate
GetConfig ==
    /\ gpc = "start"
    /\ route = "config"
    /\ gpc' = "done"
    /\ resp' = Response(200, "ok", "config")
    /\ response_data' = ConfigData
    /\ UNCHANGED <<route, header, posted, request_json, request_data,
                   anthropic_request, configVars, did, openai_request,
                   openai_data, anthropic_response, logged, token,
                   authorization, target>>

\* RequestHandler.list_models()
ListModels ==
    /\ gpc = "handler"
    /\ route = "list_models"
    /\ gpc' = "done"
    /\ resp' = Response(200, "ok", "models")
    /\ UNCHANGED <<route, header, posted, request_json, request_data, anthropic_request,
                   configVars,
                   did, openai_request, openai_data, anthropic_response, logged,
                   token, authorization, target, response_data>>

\* RequestHandler.get_model(model_id): 404 when the id is not configured
GetModel(known) ==
    /\ gpc = "handler"
    /\ route = "get_model"
    /\ gpc' = "done"
    /\ resp' = IF known THEN Response(200, "ok", "models")
               ELSE Response(404, "invalid_request_error", "openai")
    /\ UNCHANGED <<route, header, posted, request_json, request_data, anthropic_request,
                   configVars,
                   did, openai_request, openai_data, anthropic_response, logged,
                   token, authorization, target, response_data>>

\* anthropic_messages(), lines 226-313: the Anthropic request is translated
\* to a chat-completions request.  A body that is no JSON object raises at
\* line 244 and a null temperature at line 305: "except Exception" answers
\* 500 and logs the call.  No message left is answered with 400 (lines
\* 278-289) and logged.  config.map_model_name() (line 273) returns.
TranslateMessages ==
    /\ gpc = "handler"
    /\ route = "messages"
    /\ did' = did \cup {"translate"}
    /\ IF ~request_json.present \/ ~request_json.object
       THEN /\ gpc' = "done"
            /\ resp' = Response(500, "api_error", "anthropic")
            /\ logged' = logged + 1
            /\ openai_request' = openai_request
       ELSE IF TranslatedMessages(anthropic_request) = <<>>
       THEN /\ gpc' = "done"
            /\ resp' = Response(400, "invalid_request_error", "anthropic")
            /\ logged' = logged + 1
            /\ openai_request' = openai_request
       ELSE IF TranslationRaises(anthropic_request)
       THEN /\ gpc' = "done"
            /\ resp' = Response(500, "api_error", "anthropic")
            /\ logged' = logged + 1
            /\ openai_request' = openai_request
       ELSE /\ gpc' = "chat"
            /\ resp' = resp
            /\ logged' = logged
            /\ openai_request' = OpenAIRequest(anthropic_request)
    /\ UNCHANGED <<route, header, posted, request_json, request_data, anthropic_request,
                   configVars,
                   openai_data, anthropic_response, token, authorization,
                   target, response_data>>

\* the request as RequestHandler.chat_completions() gets it: the route
\* function of /v1/messages always sets a model (config.default_model when
\* the request names none) and hands on the messages it has translated
HasModel == request_json.present /\ (request_json.model \/ route = "messages")
HasMessages_Always == TRUE
HasMessages ==
    IF route = "messages" THEN openai_request.messages # <<>>
    ELSE request_json.messages

\* request_data.get('stream', False), of a chat request
Streams ==
    /\ route # "completions"
    /\ IF route = "messages" THEN openai_request.stream = "true"
       ELSE request_json.stream

\* request.get_json() gave a value that is not None, not empty and no JSON
\* object: "request_data['max_tokens'] = ..." (line 77) and
\* request_data.get('model') (line 119) raise
BodyRaises ==
    route # "messages" /\ request_json.present /\ ~request_json.object

\* the values config.max_tokens can hold: a default, or None when none is
\* configured
DefaultMaxTokens == 7
MaxTokensSettings == {None, DefaultMaxTokens}

\* the values config.strip_zero_temperature can hold
StripSettings == BOOLEAN

\* the dict chat_completions() is called with: the body of the call, or the
\* openai_request of anthropic_messages()
CalledWith ==
    IF route = "messages"
    THEN [request_json EXCEPT !.max_tokens = openai_request.max_tokens,
                              !.temperature = openai_request.temperature]
    ELSE request_json

\* lines 68-72: temperature is popped when the policy is on and its value
\* is not None and equals 0
StrippedTemperature_Always(strip, body) ==
    IF body.temperature = 0 THEN [body EXCEPT !.temperature = Missing] ELSE body
StrippedTemperature(strip, body) ==
    IF strip /\ body.temperature = 0
    THEN [body EXCEPT !.temperature = Missing]
    ELSE body

\* a Python value as json= sends it: None is a JSON null
JsonOf(v) == IF v = None THEN NotANumber ELSE v

\* lines 75-78: request_data['max_tokens'] = self.config.max_tokens when the
\* key is not in request_data
InjectedMaxTokens(default, body) ==
    IF body.max_tokens = Missing
    THEN [body EXCEPT !.max_tokens = JsonOf(default)]
    ELSE body

\* lines 68 and 75: "... and request_data", an empty body is left alone
Normalized(body) ==
    IF ~body.present THEN body
    ELSE InjectedMaxTokens(config_max_tokens,
                           StrippedTemperature(strip_zero_temperature, body))

\* RequestHandler.chat_completions(), lines 63-113: the two normalizations,
\* required fields, then the placeholder answer or the forwarding step; the
\* 400 and the placeholder answer are logged.
ChatCompletions ==
    /\ \/ gpc = "handler" /\ route = "chat_completions"
       \/ gpc = "chat"
    /\ IF BodyRaises
       THEN /\ gpc' = "done"
            /\ resp' = Unhandled
            /\ UNCHANGED <<logged, openai_data, response_data>>
       ELSE IF ~HasModel \/ ~HasMessages
       THEN /\ gpc' = "done"
            /\ resp' = Response(400, "invalid_request_error", "openai")
            /\ logged' = logged + 1
            /\ openai_data' = openai_data
            /\ response_data' =
                  InvalidRequest(IF HasModel THEN "messages" ELSE "model")
       ELSE IF placeholder
            THEN /\ gpc' = IF route = "messages" THEN "convert" ELSE "done"
                 /\ logged' = logged + 1
                 /\ IF Streams
                    THEN /\ resp' = Response(200, "stream", "stream")
                         /\ openai_data' = openai_data
                         /\ response_data' = StreamData
                    ELSE /\ resp' = Response(200, "ok", "completion")
                         /\ \E id \in CompletionIds, created \in Created :
                              /\ openai_data' = [PlaceholderBody EXCEPT !.id = id]
                              /\ response_data' =
                                    PlaceholderChatResponse(id, created,
                                                            request_json.model_id)
            ELSE /\ gpc' = "forward"
                 /\ UNCHANGED <<resp, logged, openai_data, response_data>>
    /\ request_data' = IF BodyRaises THEN request_data ELSE Normalized(CalledWith)
    /\ UNCHANGED <<route, header, posted, request_json, anthropic_request,
                   configVars,
                   did, openai_request, anthropic_response, token,
                   authorization, target>>

\* RequestHandler.completions(), lines 115-132: nothing is logged
Completions ==
    /\ gpc = "handler"
    /\ route = "completions"
    /\ IF BodyRaises
       THEN gpc' = "done" /\ resp' = Unhandled /\ response_data' = response_data
       ELSE IF ~HasModel
       THEN /\ gpc' = "done"
            /\ resp' = Response(400, "invalid_request_error", "openai")
            /\ response_data' = InvalidRequest("model")
       ELSE IF placeholder
            THEN /\ gpc' = "done"
                 /\ resp' = Response(200, "ok", "completion")
                 /\ \E id \in CompletionIds, created \in Created :
                      response_data' =
                         PlaceholderCompletionResponse(id, created,
                                                       request_json.model_id)
            ELSE gpc' = "forward" /\ resp' = resp /\ response_data' = response_data
    /\ UNCHANGED <<route, header, posted, request_json, request_data, anthropic_request,
                   configVars,
                   did, openai_request, openai_data, anthropic_response, logged,
                   token, authorization, target>>

\* setup_oauth(): oauth_manager is an OAuthManager when DEV_MODE is off and
\* config.is_oauth_configured(), None otherwise
HasOAuthManager == ~dev_mode /\ oauth_configured

\* an Authorization header of the forwarded request
NoAuthorization == [scheme |-> "none", credential |-> "none"]
Bearer(credential) == [scheme |-> "Bearer", credential |-> credential]
DevMockToken == "dev-mock-token"
StaticKey == "target_api_key"

\* _add_authorization_header(), lines 441-466, for the token get_token() gave
Authorization_OAuthOnly(tok) ==
    IF dev_mode THEN Bearer(DevMockToken)
    ELSE IF HasOAuthManager
    THEN (IF tok # NoToken THEN Bearer(tok) ELSE NoAuthorization)
    ELSE IF api_key_configured THEN Bearer(StaticKey)
    ELSE NoAuthorization
Authorization(tok) ==
    IF dev_mode THEN Bearer(DevMockToken)
    ELSE IF HasOAuthManager /\ tok # NoToken THEN Bearer(tok)
    ELSE IF api_key_configured THEN Bearer(StaticKey)
    ELSE NoAuthorization

\* _forward_chat_request(), lines 157-164: msg.get() of an item of
\* "messages" that is no JSON object raises
MessagesRaise == route = "chat_completions" /\ ~request_json.dicts

\* _forward_chat_request(), lines 136-202, and _forward_completion_request(),
\* lines 406-417: _add_authorization_header(headers), which asks
\* oauth_manager.get_token() when there is an OAuthManager, then
\* requests.post(target_url, ...).  An exception before the POST is
\* answered by "except Exception" (lines 390-402) and logged.
ForwardRequest ==
    /\ gpc = "forward"
    /\ \E tok \in (IF HasOAuthManager THEN {Token, NoToken} ELSE {NoToken}) :
         /\ token' = tok
         /\ authorization' = Authorization(tok)
    /\ IF MessagesRaise
       THEN /\ gpc' = "done"
            /\ did' = did \cup {"credential"}
                          \cup (IF HasOAuthManager THEN {"token"} ELSE {})
            /\ resp' = Response(500, "connection_error", "openai")
            /\ response_data' = ConnectionError
            /\ logged' = logged + 1
            /\ posted' = posted
       ELSE /\ gpc' = "upstream"
            /\ did' = did \cup {"credential", "upstream"}
                          \cup (IF HasOAuthManager THEN {"token"} ELSE {})
            /\ posted' = posted + 1
            /\ UNCHANGED <<resp, response_data, logged>>
    /\ UNCHANGED <<route, header, request_json, request_data, anthropic_request,
                   configVars,
                   openai_request, openai_data, anthropic_response, target>>

\* _forward_chat_request(), lines 204-402, and
\* _forward_completion_request(), lines 419-439: the answer of the upstream
ForwardedResponse(o) ==
    IF o.kind = "neterr" THEN Response(500, "connection_error", "openai")
    ELSE IF ~Ok(o.status) THEN Response(o.status, "upstream", "passthrough")
    ELSE IF Streams THEN Response(200, "stream", "stream")
    ELSE IF o.json THEN Response(200, "ok", "completion")
    ELSE IF route = "completions" THEN Response(500, "connection_error", "openai")
    ELSE Response(500, "invalid_response_error", "openai")

\* the body of that answer: error_data or response_data
ForwardedData(o) ==
    IF o.kind = "neterr" THEN ConnectionError
    ELSE IF ~Ok(o.status)
    THEN (IF o.json THEN JsonData(o.text)
          ELSE ErrorData("absent", ErrorMessage(o.text), NoKey))
    ELSE IF Streams THEN StreamData
    ELSE IF o.json THEN JsonData(o.text)
    ELSE IF route = "completions" THEN ConnectionError
    ELSE ErrorData("invalid_response_error",
                   <<"Target returned invalid JSON">>, Preview(o.text))

\* every way out of _forward_chat_request() logs the call once,
\* _forward_completion_request() logs nothing
UpstreamAnswer_Retry(o) ==
    /\ gpc = "upstream"
    /\ target' = o
    /\ gpc' = IF o.kind = "response" /\ Ok(o.status) THEN "done" ELSE "forward"
    /\ resp' = ForwardedResponse(o)
    /\ response_data' = ForwardedData(o)
    /\ UNCHANGED <<route, header, posted, request_json, request_data,
                   anthropic_request, configVars, did, openai_request,
                   openai_data, anthropic_response, logged, token,
                   authorization>>
UpstreamAnswer(o) ==
    /\ gpc = "upstream"
    /\ target' = o
    /\ resp' = ForwardedResponse(o)
    /\ response_data' = ForwardedData(o)
    /\ openai_data' \in (IF o.kind = "response" /\ Ok(o.status) /\ o.json
                            /\ ~Streams /\ route # "completions"
                         THEN OpenAIBodies ELSE {openai_data})
    /\ logged' = IF route = "completions" THEN logged ELSE logged + 1
    /\ gpc' = IF route = "messages" THEN "convert" ELSE "done"
    /\ UNCHANGED <<route, header, posted, request_json, request_data, anthropic_request,
                   configVars,
                   did, openai_request, anthropic_response, token,
                   authorization>>

\* anthropic_messages(), lines 316-367: a status other than 200 is returned
\* as it is; a 200 is converted with openai_response.get_json(), which a
\* streaming response does not have, and an empty list of choices has no
\* first element: the exception is answered with 500.  Every way out logs
\* the call.
ConvertResponse ==
    /\ gpc = "convert"
    /\ gpc' = "done"
    /\ logged' = logged + 1
    /\ IF resp.status # 200
       THEN UNCHANGED <<resp, anthropic_response>>
       ELSE IF resp.kind = "stream" \/ ConversionRaises(openai_data)
       THEN /\ resp' = Response(500, "api_error", "anthropic")
            /\ anthropic_response' = anthropic_response
       ELSE /\ resp' = Response(200, "ok", "message")
            /\ anthropic_response' = AnthropicResponse(openai_data)
    /\ UNCHANGED <<route, header, posted, request_json, request_data, anthropic_request,
                   configVars,
                   did, openai_request, openai_data, token, authorization,
                   target, response_data>>

\* the body of a call: on /v1/messages the flags of request_json are those
\* of anthropic_request
Consistent(json, req) ==
    IF ~json.present THEN req = NoAnthropic
    ELSE /\ json.messages = (req.messages # <<>>)
         /\ json.stream = (req.params.stream = "true")
         /\ json.dicts

\* an inbound call: any route, any Authorization header, any body
InitGate ==
    /\ route \in Routes
    /\ header \in Headers
    /\ request_json \in RequestBodies
    /\ anthropic_request \in
          (IF route = "messages" THEN SampleRequests \cup {NoAnthropic}
           ELSE {NoAnthropic})
    /\ route = "messages" => Consistent(request_json, anthropic_request)
    /\ placeholder \in BOOLEAN
    /\ dev_mode \in BOOLEAN
    /\ oauth_configured \in BOOLEAN
    /\ api_key_configured \in BOOLEAN
    /\ config_max_tokens = DefaultMaxTokens
    /\ strip_zero_temperature = FALSE
    /\ request_data = NoJson
    /\ gpc = "start"
    /\ did = {}
    /\ posted = 0
    /\ resp = NoResponse
    /\ openai_request = NoOpenAI
    /\ openai_data = NoData
    /\ anthropic_response = NoMessage
    /\ logged = 0
    /\ token = NoToken
    /\ authorization = NoAuthorization
    /\ target = NoTarget
    /\ response_data = NoResponseData

\* bodies of calls to /v1/chat/completions with and without max_tokens and
\* temperature
NormalizeBodies ==
    {NoJson}
    \cup [present : {TRUE}, object : {TRUE}, model : BOOLEAN,
          model_id : {DefaultModel}, messages : BOOLEAN, dicts : {TRUE},
          stream : BOOLEAN, max_tokens : {Missing, NotANumber, 0, 5},
          temperature : {Missing, NotANumber, 0, 1}]

\* a call to /v1/chat/completions with the gateway secret, under any setting
\* of the two normalizations
InitNormalize ==
    /\ route = "chat_completions"
    /\ header = BearerPrefix \o GatewaySecret
    /\ request_json \in NormalizeBodies
    /\ anthropic_request = NoAnthropic
    /\ placeholder \in BOOLEAN
    /\ dev_mode = FALSE
    /\ oauth_configured = FALSE
    /\ api_key_configured = TRUE
    /\ config_max_tokens \in MaxTokensSettings
    /\ strip_zero_temperature \in StripSettings
    /\ request_data = NoJson
    /\ gpc = "start"
    /\ did = {}
    /\ posted = 0
    /\ resp = NoResponse
    /\ openai_request = NoOpenAI
    /\ openai_data = NoData
    /\ anthropic_response = NoMessage
    /\ logged = 0
    /\ token = NoToken
    /\ authorization = NoAuthorization
    /\ target = NoTarget
    /\ response_data = NoResponseData

\* a call to /v1/messages with the gateway secret and a JSON body
InitMessages ==
    /\ route = "messages"
    /\ header = BearerPrefix \o GatewaySecret
    /\ anthropic_request \in AnthropicRequests
    /\ request_json \in RequestBodies
    /\ request_json.object /\ request_json.model
    /\ request_json.model_id = DefaultModel
    /\ Consistent(request_json, anthropic_request)
    /\ placeholder \in BOOLEAN
    /\ dev_mode = FALSE
    /\ oauth_configured \in BOOLEAN
    /\ api_key_configured = TRUE
    /\ config_max_tokens = DefaultMaxTokens
    /\ strip_zero_temperature = FALSE
    /\ request_data = NoJson
    /\ gpc = "start"
    /\ did = {}
    /\ posted = 0
    /\ resp = NoResponse
    /\ openai_request = NoOpenAI
    /\ openai_data = NoData
    /\ anthropic_response = NoMessage
    /\ logged = 0
    /\ token = NoToken
    /\ authorization = NoAuthorization
    /\ target = NoTarget
    /\ response_data = NoResponseData


(***************************************************************************)
(* The streaming relay: generate() in _forward_chat_request()              *)
(* (src/request_handler.py, lines 220-338), the WSGI server that iterates  *)
(* it, the upstream that feeds it and the client that reads it.            *)
(* The upstream response and the response to the client are sequences of   *)
(* lines; an event stream ends every event with an empty line.             *)
(***************************************************************************)

\* choices[0] without a finish_reason
NoFinish == "null"

\* a line of the stream: its field, its payload and, for a payload that is
\* a chat-completions chunk (a JSON object with choices), the tool_calls and
\* the content of choices[0].delta and the finish_reason of choices[0]
Blank ==
    [field |-> "blank", data |-> "", deltas |-> <<>>, content |-> <<>>,
     finish |-> NoFinish]
DataLine(d) == [Blank EXCEPT !.field = "data", !.data = d]
EventLine(n) == [Blank EXCEPT !.field = "event", !.data = n]
ToolLine(ds) == [DataLine("chunk") EXCEPT !.deltas = ds]
ContentLine(c) == [DataLine("chunk") EXCEPT !.content = c]
FinishLine(r) == [DataLine("chunk") EXCEPT !.finish = r]

\* a key a tool-call delta does not carry
Absent == "absent"
\* one element of delta['tool_calls']: index, id, type, function.name and
\* function.arguments (a string, here the sequence of its characters; the
\* empty string also stands for a delta without arguments)
Delta(i, id, name, args) ==
    [index |-> i, id |-> id, type |-> IF id = Absent THEN Absent ELSE "function",
     name |-> name, arguments |-> args, null |-> FALSE]
\* a delta whose function.arguments is null
NullDelta(i, id, name) == [Delta(i, id, name, <<>>) EXCEPT !.null = TRUE]

\* argument fragments: '{"a":' and '1}' of a call {"a":1}, and a fragment
\* that carries the text [DONE]
FragOpen == <<"{", "a", ":">>
FragClose == <<"1", "}">>
DoneText == <<"[", "D", "O", "N", "E", "]">>

\* chunks that carry tool-call deltas
ToolLines ==
    { ToolLine(<<Delta(0, "call_a", "f", FragOpen)>>),
      ToolLine(<<Delta(0, Absent, Absent, FragClose)>>),
      ToolLine(<<Delta(1, "call_b", "g", FragOpen)>>),
      ToolLine(<<Delta(0, Absent, Absent, FragClose),
                 Delta(1, Absent, Absent, FragClose)>>),
      ToolLine(<<Delta(0, Absent, Absent, DoneText)>>),
      ToolLine(<<Delta(0, "call_c", "h", <<>>)>>) }

\* chunks that carry content or a finish reason, and a chunk with content
\* and two tool-call deltas of which the second has null arguments
ChunkLines ==
    { ContentLine(Hi), FinishLine("tool_calls"),
      [ToolLine(<<Delta(0, Absent, Absent, FragClose),
                  NullDelta(1, "call_b", "g")>>) EXCEPT !.content = Hi] }

\* events an upstream can send: a payload on one data line (the
\* chat-completions stream), with an event name, or on two data lines
UpstreamEvents ==
    { <<DataLine("A")>>, <<DataLine("B")>>, <<DataLine("[DONE]")>>,
      <<EventLine("n"), DataLine("A")>>, <<DataLine("A"), DataLine("B")>> }
    \cup {<<l>> : l \in ToolLines \cup ChunkLines}

\* the lines of an event stream: every event, then an empty line
RECURSIVE Wire(_)
Wire(evs) ==
    IF evs = <<>> THEN <<>>
    ELSE Head(evs) \o <<Blank>> \o Wire(Tail(evs))

\* the payload of the data lines of a block of lines
RECURSIVE DataOf(_)
DataOf(lines) ==
    IF lines = <<>> THEN <<>>
    ELSE IF Head(lines).field = "data"
         THEN <<Head(lines).data>> \o DataOf(Tail(lines))
         ELSE DataOf(Tail(lines))

\* the events an event-stream parser reads from lines: an empty line ends a
\* block, and a block with data is an event with that payload
RECURSIVE ParseFrom(_, _)
ParseFrom(lines, block) ==
    IF lines = <<>> THEN <<>>
    ELSE IF Head(lines) = Blank
         THEN (IF DataOf(block) = <<>> THEN <<>> ELSE <<DataOf(block)>>)
              \o ParseFrom(Tail(lines), <<>>)
         ELSE ParseFrom(Tail(lines), Append(block, Head(lines)))
ParseEvents(lines) == ParseFrom(lines, <<>>)

\* "yield chunk + b'\n\n'": the line, its end, and an empty line
Framed_OneNewline(c) == <<c>>
Framed(c) == <<c, Blank>>

\* the error event of line 337
ErrorLine == DataLine("error")

\* "x in y" of two strings
Contains(str, sub) ==
    \E i \in 1..(Len(str) - Len(sub) + 1) : SubSeq(str, i, i + Len(sub) - 1) = sub

\* b'[DONE]' in chunk: the text [DONE] anywhere in the line
HasDoneText(line) ==
    \/ line.data = "[DONE]"
    \/ \E k \in 1..Len(line.deltas) : Contains(line.deltas[k].arguments, DoneText)

\* line 237: the line is parsed when it starts with 'data: ' and does not
\* hold the text [DONE]
Parsed(line) == line.field = "data" /\ ~HasDoneText(line)

\* accumulated_tool_calls = {}
NoCalls == <<>>

\* lines 252-272, one tc_delta: the entry of its index is created at the
\* first delta, id, type and name are set when the delta carries them, the
\* arguments are appended
Accumulate(acc, d) ==
    LET old == IF d.index \in DOMAIN acc
               THEN acc[d.index]
               ELSE [id |-> IF d.id = Absent THEN "" ELSE d.id,
                     type |-> IF d.type = Absent THEN "function" ELSE d.type,
                     name |-> "", arguments |-> <<>>]
        new == [id |-> IF d.id = Absent THEN old.id ELSE d.id,
                type |-> IF d.type = Absent THEN old.type ELSE d.type,
                name |-> IF d.name = Absent THEN old.name ELSE d.name,
                arguments |-> old.arguments \o d.arguments]
    IN [i \in DOMAIN acc \cup {d.index} |-> IF i = d.index THEN new ELSE acc[i]]

\* "for tc_delta in delta['tool_calls']"; at a delta with null arguments
\* line 272 raises after the lines before it have run, and the loop is left
RECURSIVE AccumulateAll(_, _)
AccumulateAll(acc, ds) ==
    IF ds = <<>> THEN acc
    ELSE IF Head(ds).null THEN Accumulate(acc, Head(ds))
    ELSE AccumulateAll(Accumulate(acc, Head(ds)), Tail(ds))

\* line 238, json.loads(chunk[6:]): the payload is a JSON chunk, or the call
\* raises
IsJson(line) == line.data = "chunk"

\* lines 247-272 raise for the line
Raises(line) == \E k \in 1..Len(line.deltas) : line.deltas[k].null

\* lines 235-311: what a line does to accumulated_tool_calls
Accumulated(acc, line) ==
    IF Parsed(line) /\ IsJson(line) THEN AccumulateAll(acc, line.deltas) ELSE acc

\* lines 242-244: what a line does to full_response_text
Text(text, line) ==
    IF Parsed(line) /\ IsJson(line) THEN text \o line.content ELSE text

\* lines 277-278: the line is processed up to its finish_reason, and has one
FinishSeen(line) ==
    Parsed(line) /\ IsJson(line) /\ ~Raises(line) /\ line.finish # NoFinish

\* lines 309-311: the try block of the line ends in "except Exception",
\* at json.loads() or at line 272
Fails(line) == Parsed(line) /\ (~IsJson(line) \/ Raises(line))

\* generate() without the try block of lines 235-311: the exception of a
\* line reaches "except Exception" of line 333
RelayRead_Unguarded ==
    /\ rpc = "read"
    /\ upstream # <<>>
    /\ upstream' = Tail(upstream)
    /\ IF Head(upstream) = Blank
       THEN UNCHANGED <<rpc, chunk, chunk_count, accumulated_tool_calls,
                        full_response_text>>
       ELSE /\ rpc' = IF Fails(Head(upstream)) THEN "error" ELSE "yield"
            /\ chunk' = IF Fails(Head(upstream)) THEN ErrorLine ELSE Head(upstream)
            /\ chunk_count' = chunk_count + 1
            /\ full_response_text' = Text(full_response_text, Head(upstream))
            /\ accumulated_tool_calls' =
                   Accumulated(accumulated_tool_calls, Head(upstream))
    /\ UNCHANGED <<events, up_open, client, sent>>
\* "for chunk in response.iter_lines()": the next line of the upstream;
\* an empty line is skipped ("if chunk:"), any other line is counted,
\* parsed for its tool calls, and the generator suspends at its yield with it
RelayRead ==
    /\ rpc = "read"
    /\ upstream # <<>>
    /\ upstream' = Tail(upstream)
    /\ IF Head(upstream) = Blank
       THEN UNCHANGED <<rpc, chunk, chunk_count, accumulated_tool_calls,
                        full_response_text>>
       ELSE /\ rpc' = "yield"
            /\ chunk' = Head(upstream)
            /\ chunk_count' = chunk_count + 1
            /\ full_response_text' = Text(full_response_text, Head(upstream))
            /\ accumulated_tool_calls' =
                   Accumulated(accumulated_tool_calls, Head(upstream))
    /\ UNCHANGED <<events, up_open, client, sent>>

\* the upstream has ended: the loop ends and response.close() is called
RelayEnd ==
    /\ rpc = "read"
    /\ upstream = <<>>
    /\ rpc' = "done"
    /\ up_open' = FALSE
    /\ UNCHANGED <<events, upstream, client, chunk, chunk_count,
                   accumulated_tool_calls, full_response_text, sent>>

\* the upstream connection fails while the generator reads: iter_lines()
\* raises (the connection is closed by the failure) and "except Exception"
\* suspends the generator at the yield of the error event
UpstreamFails_Severed ==
    /\ rpc = "read"
    /\ up_open
    /\ rpc' = "failed"
    /\ upstream' = <<>>
    /\ up_open' = FALSE
    /\ UNCHANGED <<events, client, chunk, chunk_count, accumulated_tool_calls,
                   full_response_text, sent>>
UpstreamFails ==
    /\ rpc = "read"
    /\ up_open
    /\ rpc' = "error"
    /\ chunk' = ErrorLine
    /\ upstream' = <<>>
    /\ up_open' = FALSE
    /\ UNCHANGED <<events, client, chunk_count, accumulated_tool_calls,
                   full_response_text, sent>>

\* the server writes what the generator yielded to the client and resumes
\* the generator: after a line the loop goes on, after the error event the
\* generator returns
Deliver ==
    /\ rpc \in {"yield", "error"}
    /\ client = "connected"
    /\ sent' = sent \o Framed(chunk)
    /\ rpc' = IF rpc = "yield" THEN "read" ELSE "failed"
    /\ UNCHANGED <<events, upstream, up_open, client, chunk, chunk_count,
                   accumulated_tool_calls, full_response_text>>

\* the client closes its connection while the relay is active
ClientDisconnects ==
    /\ client = "connected"
    /\ rpc \in {"read", "yield", "error"}
    /\ client' = "gone"
    /\ UNCHANGED <<events, upstream, up_open, rpc, chunk, chunk_count,
                   accumulated_tool_calls, full_response_text, sent>>

\* the server cannot write to the client that is gone and closes the
\* generator: GeneratorExit is raised at the yield, "except GeneratorExit"
\* logs it and the generator returns; response.close() is not called
ClientGone ==
    /\ rpc \in {"yield", "error"}
    /\ client = "gone"
    /\ rpc' = "aborted"
    /\ UNCHANGED <<events, upstream, up_open, client, chunk, chunk_count,
                   accumulated_tool_calls, full_response_text, sent>>

\* the response object of a generator that has returned is garbage: when
\* the interpreter collects it, the connection is closed
Collected ==
    /\ rpc = "aborted"
    /\ up_open
    /\ up_open' = FALSE
    /\ UNCHANGED <<events, upstream, client, rpc, chunk, chunk_count,
                   accumulated_tool_calls, full_response_text, sent>>

\* a 2xx streaming answer of the upstream: the relay starts
InitRelay ==
    /\ events \in SeqsUpTo(UpstreamEvents, MaxEvents)
    /\ upstream = Wire(events)
    /\ up_open = TRUE
    /\ client = "connected"
    /\ rpc = "read"
    /\ chunk = Blank
    /\ chunk_count = 0
    /\ accumulated_tool_calls = NoCalls
    /\ full_response_text = <<>>
    /\ sent = <<>>

(***************************************************************************)
(* The specifications.                                                     *)
(***************************************************************************)

\* no call in progress
IdleGate ==
    /\ route = "health"
    /\ header = <<>>
    /\ request_json = NoJson
    /\ placeholder = FALSE
    /\ dev_mode = FALSE
    /\ oauth_configured = FALSE
    /\ api_key_configured = FALSE
    /\ config_max_tokens = DefaultMaxTokens
    /\ strip_zero_temperature = FALSE
    /\ request_data = NoJson
    /\ gpc = "done"
    /\ did = {}
    /\ posted = 0
    /\ resp = NoResponse
    /\ anthropic_request = NoAnthropic
    /\ openai_request = NoOpenAI
    /\ openai_data = NoData
    /\ anthropic_response = NoMessage
    /\ logged = 0
    /\ token = NoToken
    /\ authorization = NoAuthorization
    /\ target = NoTarget
    /\ response_data = NoResponseData

\* no relay in progress
IdleRelay ==
    /\ events = <<>>
    /\ upstream = <<>>
    /\ up_open = FALSE
    /\ client = "connected"
    /\ rpc = "done"
    /\ chunk = Blank
    /\ chunk_count = 0
    /\ accumulated_tool_calls = NoCalls
    /\ full_response_text = <<>>
    /\ sent = <<>>

NextOAuth ==
    \/ \E c \in Callers : GetTokenCall(c) /\ UNCHANGED <<gateVars, relayVars>>
    \/ \E c \in Callers : GetTokenCached(c) /\ UNCHANGED <<gateVars, relayVars>>
    \/ \E c \in Callers : GetTokenFetch(c) /\ UNCHANGED <<gateVars, relayVars>>
    \/ \E k \in 1..MaxTimers : TimerFire(k) /\ UNCHANGED <<gateVars, relayVars>>
    \/ \E k \in 1..MaxTimers : RefreshToken(k) /\ UNCHANGED <<gateVars, relayVars>>
    \/ \E h \in Threads, a \in Answers :
          FirstAnswer(h, a.status, a.body) /\ UNCHANGED <<gateVars, relayVars>>
    \/ \E h \in Threads, a \in Answers :
          SecondAnswer(h, a.status, a.body) /\ UNCHANGED <<gateVars, relayVars>>
    \/ Tick /\ UNCHANGED <<gateVars, relayVars>>

\* the token manager just constructed, no HTTP call and no relay in progress
StartOAuth == InitOAuth /\ IdleGate /\ IdleRelay

SpecOAuth == StartOAuth /\ [][NextOAuth]_vars

\* the token manager with destroy(), which the process may call at any
\* moment
NextShutdown ==
    \/ NextOAuth
    \/ Destroy /\ UNCHANGED <<gateVars, relayVars>>

SpecShutdown == StartOAuth /\ [][NextShutdown]_vars

\* the bodies of a token answer that stores a token with a lifetime above
\* the refresh buffer
GoodBodies ==
    {b \in Bodies : /\ b.json /\ b.tok
                    /\ b.expires_in # NotANumber
                    /\ ExpiresIn(b) > RefreshBuffer}

\* the token endpoint answers the first POST with such a body, or with the
\* 400 that makes _fetch_token() try again with the credentials in the body
GoodFirstAnswer(h) ==
    \/ FirstAnswer(h, "400", NoBody)
    \/ \E b \in GoodBodies : FirstAnswer(h, "2xx", b)

\* the token endpoint answers the second POST with such a body
GoodSecondAnswer(h) == \E b \in GoodBodies : SecondAnswer(h, "2xx", b)

\* the first get_token() call of the process
FirstCall(c) == obs.calls = 0 /\ GetTokenCall(c)

\* a later get_token() call, made while the stored token is fresh: every
\* fetch after the first is the Timer's
FurtherCall(c) == obs.calls > 0 /\ ~MustFetch /\ GetTokenCall(c)

\* the last instant of the clock of these runs: one instant for every
\* fetch a run can make
LastInstant == MaxFetches

\* time passes from one instant to the next when nothing is due: a
\* threading.Timer runs its function at its instant, and a fetch ends
\* within its two POSTs' timeouts (timeout=30, lines 75 and 88), long
\* before the 300 s of one unit of model time have passed
TickTimely ==
    /\ \A h \in Threads : pc[h] \notin {"wait", "req1", "req2"}
    /\ \A k \in 1..MaxTimers : pc[TimerOf(k)] = "armed" => now < fireAt[k]
    /\ now < LastInstant
    /\ now' = now + 1
    /\ UNCHANGED <<access_token, expires_at, refresh_timer, lock, pc, fireAt,
                   reqlog, ret, obs>>

\* one get_token() call that fetches, then the refresh Timers alone, every
\* fetch succeeding
NextRefresh ==
    \/ \E c \in Callers : FirstCall(c) /\ UNCHANGED <<gateVars, relayVars>>
    \/ \E c \in Callers : FurtherCall(c) /\ UNCHANGED <<gateVars, relayVars>>
    \/ \E c \in Callers : GetTokenCached(c) /\ UNCHANGED <<gateVars, relayVars>>
    \/ \E c \in Callers : GetTokenFetch(c) /\ UNCHANGED <<gateVars, relayVars>>
    \/ \E k \in 1..MaxTimers : TimerFire(k) /\ UNCHANGED <<gateVars, relayVars>>
    \/ \E k \in 1..MaxTimers : RefreshToken(k) /\ UNCHANGED <<gateVars, relayVars>>
    \/ \E h \in Threads : GoodFirstAnswer(h) /\ UNCHANGED <<gateVars, relayVars>>
    \/ \E h \in Threads : GoodSecondAnswer(h) /\ UNCHANGED <<gateVars, relayVars>>
    \/ TickTimely /\ UNCHANGED <<gateVars, relayVars>>

\* the scheduler runs a thread that can run: a Timer thread whose interval
\* has passed, a thread waiting for the free lock; a POST with a timeout
\* ends; time passes
FairRefresh ==
    /\ \A c \in Callers :
          WF_vars(GetTokenFetch(c) /\ UNCHANGED <<gateVars, relayVars>>)
    /\ \A c \in Callers :
          WF_vars(GetTokenCached(c) /\ UNCHANGED <<gateVars, relayVars>>)
    /\ \A k \in 1..MaxTimers :
          WF_vars(TimerFire(k) /\ UNCHANGED <<gateVars, relayVars>>)
    /\ \A k \in 1..MaxTimers :
          WF_vars(RefreshToken(k) /\ UNCHANGED <<gateVars, relayVars>>)
    /\ \A h \in Threads :
          WF_vars(GoodFirstAnswer(h) /\ UNCHANGED <<gateVars, relayVars>>)
    /\ \A h \in Threads :
          WF_vars(GoodSecondAnswer(h) /\ UNCHANGED <<gateVars, relayVars>>)
    /\ WF_vars(TickTimely /\ UNCHANGED <<gateVars, relayVars>>)

SpecRefresh == StartOAuth /\ [][NextRefresh]_vars /\ FairRefresh

NextGate ==
    \/ VerifyAccessToken /\ UNCHANGED <<oauthVars, relayVars>>
    \/ HealthCheck /\ UNCHANGED <<oauthVars, relayVars>>
    \/ GetConfig /\ UNCHANGED <<oauthVars, relayVars>>
    \/ ListModels /\ UNCHANGED <<oauthVars, relayVars>>
    \/ \E known \in BOOLEAN : GetModel(known) /\ UNCHANGED <<oauthVars, relayVars>>
    \/ TranslateMessages /\ UNCHANGED <<oauthVars, relayVars>>
    \/ ChatCompletions /\ UNCHANGED <<oauthVars, relayVars>>
    \/ Completions /\ UNCHANGED <<oauthVars, relayVars>>
    \/ ForwardRequest /\ UNCHANGED <<oauthVars, relayVars>>
    \/ \E o \in UpstreamOutcomes : UpstreamAnswer(o) /\ UNCHANGED <<oauthVars, relayVars>>
    \/ ConvertResponse /\ UNCHANGED <<oauthVars, relayVars>>

\* one HTTP call arriving at its route
StartGate == InitOAuth /\ InitGate /\ IdleRelay

SpecGate == StartGate /\ [][NextGate]_vars

\* the route function of /v1/messages
NextMessages ==
    \/ VerifyAccessToken /\ UNCHANGED <<oauthVars, relayVars>>
    \/ TranslateMessages /\ UNCHANGED <<oauthVars, relayVars>>
    \/ ChatCompletions /\ UNCHANGED <<oauthVars, relayVars>>
    \/ ForwardRequest /\ UNCHANGED <<oauthVars, relayVars>>
    \/ \E o \in UpstreamOutcomes : UpstreamAnswer(o) /\ UNCHANGED <<oauthVars, relayVars>>
    \/ ConvertResponse /\ UNCHANGED <<oauthVars, relayVars>>

\* one HTTP call with the gateway secret arriving at /v1/messages
StartMessages == InitOAuth /\ InitMessages /\ IdleRelay

SpecMessages == StartMessages /\ [][NextMessages]_vars

\* the route function of /v1/chat/completions
NextNormalize ==
    \/ VerifyAccessToken /\ UNCHANGED <<oauthVars, relayVars>>
    \/ ChatCompletions /\ UNCHANGED <<oauthVars, relayVars>>
    \/ ForwardRequest /\ UNCHANGED <<oauthVars, relayVars>>
    \/ \E o \in UpstreamOutcomes : UpstreamAnswer(o) /\ UNCHANGED <<oauthVars, relayVars>>

\* one HTTP call with the gateway secret arriving at /v1/chat/completions
StartNormalize == InitOAuth /\ InitNormalize /\ IdleRelay

SpecNormalize == StartNormalize /\ [][NextNormalize]_vars

NextRelay ==
    \/ RelayRead /\ UNCHANGED <<oauthVars, gateVars>>
    \/ RelayEnd /\ UNCHANGED <<oauthVars, gateVars>>
    \/ UpstreamFails /\ UNCHANGED <<oauthVars, gateVars>>
    \/ Deliver /\ UNCHANGED <<oauthVars, gateVars>>
    \/ ClientDisconnects /\ UNCHANGED <<oauthVars, gateVars>>
    \/ ClientGone /\ UNCHANGED <<oauthVars, gateVars>>
    \/ Collected /\ UNCHANGED <<oauthVars, gateVars>>

\* one streaming upstream response handed to generate()
StartRelay == InitOAuth /\ IdleGate /\ InitRelay

SpecRelay == StartRelay /\ [][NextRelay]_vars

(***************************************************************************)
(* The claims.                                                             *)
(***************************************************************************)

\* C1: on a bearer-secured route, a call whose Authorization header is not
\* exactly 'Bearer ' followed by the gateway secret is answered 401 with
\* kind invalid_request_error, and at no point has any translation,
\* credential fetch or upstream call been done for it.
C1_LacksSecret == header # BearerPrefix \o GatewaySecret
C1_Unauthorized401 ==
    (route \in SecuredRoutes /\ C1_LacksSecret) =>
        /\ did = {}
        /\ gpc \in {"start", "done"}
        /\ gpc = "done" => resp = Response(401, "invalid_request_error", "openai")
C1_Witness ==
    /\ route = "messages"
    /\ header = BearerPrefix \o <<"k", "2">>
    /\ gpc = "done"
    /\ resp.status = 401

\* C2 (as claimed): a token returned by get_token() has, at the moment of
\* the return, more than the refresh buffer left to its expiry; a call whose
\* fetch failed returns no token.
C2_FreshOnReturn ==
    \A c \in Callers :
        /\ ret[c].val = Token => ret[c].fresh
        /\ ret[c].how = "failed" => ret[c].val = NoToken

Fetching == {h \in Threads : pc[h] \in {"req1", "req2"}}
C4_OneFetchInFlight ==
    /\ Cardinality(Fetching) <= 1
    /\ \A h \in Fetching : lock = h
C4_Witness ==
    \E c \in Callers, t \in Timers :
        \/ pc[c] \in {"req1", "req2"} /\ pc[t] = "wait"
        \/ pc[t] \in {"req1", "req2"} /\ pc[c] = "wait"

\* C5: a step in which a token fetch fails leaves no token and no expiry
\* stored, and the get_token() call that made the fetch returns no token to
\* its caller (it returns: the thread is back in its caller).
FetchFailsIn(h) ==
    /\ pc[h] \in {"req1", "req2"}
    /\ pc'[h] = Returned(h)
    /\ obs'.lastFailed
C6_NoRefreshAfterFailure ==
    (obs.lastFailed /\ ~obs.tokenless /\ \A c \in Callers : pc[c] = "idle") =>
        \A t \in Timers : pc[t] \in {"unused", "ended"}

\* C7 (as claimed): a Timer is started for the instant expiry - buffer of
\* the token just stored.
Started(k) == pc[TimerOf(k)] # "armed" /\ pc'[TimerOf(k)] = "armed"
FetchStoresIn(h) ==
    /\ pc[h] \in {"req1", "req2"}
    /\ pc'[h] = Returned(h)
    /\ ~obs'.lastFailed
ArmedTimers == {k \in 1..MaxTimers : pc[TimerOf(k)] = "armed"}
C8_AtMostTwoRequests ==
    \A h \in Threads :
        LET l == reqlog[h]
        IN /\ Len(l) <= 2
           /\ Len(l) >= 1 => l[1].auth = "basic"
           /\ Len(l) = 2 => l[1].status = "400" /\ l[2].auth = "body"
           /\ (l # <<>>) = (pc[h] \in {"req1", "req2"})
           /\ pc[h] = "req1" => Len(l) = 1
C8_Witness ==
    \E h \in Threads : Len(reqlog[h]) = 2 /\ pc[h] = "req2"

\* C9 (as claimed): when the upstream has ended normally, the events the
\* client has received are the events the upstream sent, in their order and
\* with their payloads.
C9_SameEvents ==
    rpc = "done" => ParseEvents(sent) = ParseEvents(Wire(events))

\* C9 (amended): when every upstream event carries its payload on one data
\* line and the upstream has ended normally, the events the client has
\* received are the events the upstream sent, in their order and with their
\* payloads; and every line read is written to the client before the next
\* one is read.
OneDataLine(e) == Len(DataOf(e)) = 1
Delivered == Len(SelectSeq(sent, LAMBDA l : l # Blank))
C9_SameEventsOneLine ==
    /\ (rpc = "done" /\ \A i \in 1..Len(events) : OneDataLine(events[i]))
          => ParseEvents(sent) = ParseEvents(Wire(events))
    /\ rpc \in {"read", "done"} => Delivered = chunk_count
    /\ rpc = "yield" => Delivered = chunk_count - 1
C9_Witness ==
    /\ rpc = "done"
    /\ Len(events) = MaxEvents
    /\ \A i \in 1..Len(events) : OneDataLine(events[i])
    /\ \E i \in 1..Len(events) : Len(events[i]) = 2
    /\ client = "connected"

\* C10 (as claimed): once the relay has stopped because the client is gone,
\* the upstream connection is closed.
C10_ReleasedOnDisconnect ==
    (client = "gone" /\ rpc = "aborted") => ~up_open

\* the lines the generator has read from the upstream and counted
NonBlank(lines) == SelectSeq(lines, LAMBDA l : l # Blank)
Received == SubSeq(NonBlank(Wire(events)), 1, chunk_count)

RECURSIVE FramedAll(_)
FramedAll(lines) ==
    IF lines = <<>> THEN <<>>
    ELSE <<Head(lines), Blank>> \o FramedAll(Tail(lines))

\* C11: when the upstream connection fails after k >= 0 lines have been
\* relayed, the client has received those k lines, each as an event, then
\* exactly one error event, and nothing after it: the stream has ended, the
\* upstream is not read again and no new upstream call is made.
C11_OneTerminalError ==
    [][ /\ rpc' = "failed" =>
            /\ sent' = FramedAll(Received') \o <<ErrorLine, Blank>>
            /\ ParseEvents(sent') =
                   ParseEvents(FramedAll(Received')) \o << <<ErrorLine.data>> >>
            /\ upstream' = <<>> /\ ~up_open'
        /\ rpc = "failed" => (rpc' = "failed" /\ sent' = sent) ]_vars

C11_Witness ==
    /\ rpc = "failed"
    /\ chunk_count = 2
    /\ Len(sent) = 6

\* the argument fragments of call index i in the lines, in arrival order
RECURSIVE DeltaFragments(_, _)
DeltaFragments(ds, i) ==
    IF ds = <<>> THEN <<>>
    ELSE (IF Head(ds).index = i THEN Head(ds).arguments ELSE <<>>)
         \o DeltaFragments(Tail(ds), i)
RECURSIVE Fragments(_, _)
Fragments(lines, i) ==
    IF lines = <<>> THEN <<>>
    ELSE DeltaFragments(Head(lines).deltas, i) \o Fragments(Tail(lines), i)

ArgumentsSoFar(i) ==
    IF i \in DOMAIN accumulated_tool_calls
    THEN accumulated_tool_calls[i].arguments
    ELSE <<>>

\* C12: after any prefix of the stream, the accumulated argument string of
\* every call index is the concatenation, in arrival order, of every
\* argument fragment received so far for that index.
C12_ArgumentsConcatenated ==
    \A i \in 0..1 : ArgumentsSoFar(i) = Fragments(Received, i)

\* C13: every failure response has the wire shape of the route that was
\* called: on /v1/messages every non-200 response is an Anthropic envelope
\* {type: "error", error: {...}}, on /v1/chat/completions and
\* /v1/completions every non-200 response is an OpenAI envelope
\* {error: {...}} (the handed-on body of an OpenAI-compatible upstream is
\* one).  Stated for the calls that carry the gateway secret and a body that
\* is a JSON object or empty.
C13_EnvelopeOfRoute ==
    (gpc = "done" /\ resp.status # 200 /\ Authorized(header) /\ ~BodyRaises) =>
        /\ route = "messages" => resp.shape = "anthropic"
        /\ route \in {"chat_completions", "completions"} =>
              resp.shape \in {"openai", "passthrough"}

\* C14: for every inbound call to a /v1 route, whether it completes or
\* fails, log_api_call is invoked exactly once.  Stated for the calls to the
\* POST routes that carry the gateway secret and a body that is a JSON
\* object or empty.
C14_LoggedOnce ==
    (/\ gpc = "done"
     /\ route \in {"chat_completions", "completions", "messages"}
     /\ Authorized(header)
     /\ ~BodyRaises)
    => logged = 1

\* the request of the call has been translated: openai_request is built
Translated == openai_request # NoOpenAI

\* the texts of the text blocks of a system list
SystemTexts(system) ==
    IF system.kind = "str" THEN <<system.text>>
    ELSE LET blocks == SelectSeq(system.blocks, LAMBDA b : b.hasText)
         IN [j \in 1..Len(blocks) |-> blocks[j].text]

\* the conversation messages that are retained, and those of the
\* canonical list
Retained == SelectSeq(anthropic_request.messages,
                      LAMBDA m : ~IsEmpty(Reduce(m.content)))
Conversation ==
    SubSeq(openai_request.messages, Len(SystemTexts(anthropic_request.system)) + 1,
           Len(openai_request.messages))

\* C15: the canonical message list consists of the system message(s)
\* derived from the system field first (one for a string, one per text
\* block of a list, in block order), followed by the retained conversation
\* messages in their original relative order with their original roles;
\* {system: "X", messages: [{user, "hi"}]} yields [{system, "X"}, {user, "hi"}].
C15_SystemFirstThenConversation ==
    Translated =>
        LET out == openai_request.messages
            texts == SystemTexts(anthropic_request.system)
        IN /\ Len(out) = Len(texts) + Len(Retained)
           /\ \A j \in 1..Len(texts) :
                 out[j] = [role |-> "system", content |-> texts[j]]
           /\ \A j \in 1..Len(Retained) :
                 /\ Conversation[j].role = Retained[j].role
                 /\ Conversation[j].content = Reduce(Retained[j].content)
           /\ (/\ anthropic_request.system = StrContent(X)
               /\ anthropic_request.messages = <<Message("user", StrContent(Hi))>>)
              => out = << [role |-> "system", content |-> X],
                          [role |-> "user", content |-> Hi] >>

C15_Witness ==
    /\ gpc = "chat"
    /\ anthropic_request.system.kind = "list"
    /\ Len(openai_request.messages) = 4
    /\ openai_request.messages[2].role = "system"
    /\ openai_request.messages[3].role = "assistant"
    /\ openai_request.messages[4].role = "user"

\* the texts of the text-typed blocks of a content list, put together with
\* nothing between them
RECURSIVE Concatenated(_)
Concatenated(blocks) ==
    IF blocks = <<>> THEN <<>>
    ELSE (IF Head(blocks).type = "text" THEN Head(blocks).text ELSE <<>>)
         \o Concatenated(Tail(blocks))

\* C16: for a conversation message whose content is a list of typed
\* blocks, the canonical content is the concatenation, in block order, of
\* the text of all text-typed blocks and nothing else: no characters are
\* inserted between blocks.
C16_ConcatenatedText ==
    Translated =>
        \A j \in 1..Len(Retained) :
            Retained[j].content.kind = "list" =>
                Conversation[j].content = Concatenated(Retained[j].content.blocks)

\* the text-typed blocks of a list, and the place in the joined text where
\* the text of the k-th of them starts
TextBlocks(blocks) == SelectSeq(blocks, LAMBDA b : b.type = "text")
RECURSIVE StartOf(_, _)
StartOf(blocks, k) ==
    IF k = 1 THEN 1
    ELSE StartOf(blocks, k - 1) + Len(blocks[k - 1].text) + 1

\* C16 (amended): for a conversation message whose content is a list of
\* typed blocks, the canonical content is the text of all text-typed blocks,
\* in block order, with one newline between two consecutive text-typed
\* blocks and nothing else: non-text blocks contribute nothing.
C16_JoinedByNewline ==
    Translated =>
        \A j \in 1..Len(Retained) :
            Retained[j].content.kind = "list" =>
                LET tb == TextBlocks(Retained[j].content.blocks)
                    out == Conversation[j].content
                    n == Len(tb)
                IN /\ n >= 1
                   /\ Len(out) = StartOf(tb, n) + Len(tb[n].text) - 1
                   /\ \A k \in 1..n :
                         /\ SubSeq(out, StartOf(tb, k),
                                   StartOf(tb, k) + Len(tb[k].text) - 1) = tb[k].text
                         /\ k > 1 => out[StartOf(tb, k) - 1] = Newline

C16_Witness ==
    /\ gpc = "chat"
    /\ \E j \in 1..Len(Retained) :
          /\ Retained[j].content.kind = "list"
          /\ Len(Retained[j].content.blocks) = 3
          /\ Len(TextBlocks(Retained[j].content.blocks)) = 2
          /\ Conversation[j].content = Hi \o <<Newline>> \o X

\* a text without any character other than white space
OnlyWhiteSpace(text) == {text[i] : i \in 1..Len(text)} \subseteq {" ", Newline}

C18_OptionalParameters ==
    Translated =>
        LET p == anthropic_request.params
        IN /\ (openai_request.temperature # Missing) <=> (p.temperature > 0)
           /\ p.temperature > 0 => openai_request.temperature = p.temperature
           /\ openai_request.max_tokens = p.max_tokens
           /\ openai_request.top_p = p.top_p
           /\ openai_request.stream = p.stream
           /\ openai_request.stop = p.stop_sequences

C18_Witness ==
    /\ Translated
    /\ anthropic_request.params.temperature = 0
    /\ anthropic_request.params.max_tokens = 0
    /\ anthropic_request.params.stream = "false"
    /\ anthropic_request.params.top_p = 1

\* the call has been answered with a converted message
Converted == gpc = "done" /\ resp = Response(200, "ok", "message")

\* C19: the reverse mapping of finish_reason to stop_reason is total:
\* stop -> end_turn, length -> max_tokens, content_filter -> stop_sequence,
\* and every other value (tool_calls, null, a missing field) -> end_turn.
C19_StopReason ==
    Converted =>
        LET f == FirstChoice(openai_data).finish_reason
            r == anthropic_response.stop_reason
        IN /\ f = "stop" => r = "end_turn"
           /\ f = "length" => r = "max_tokens"
           /\ f = "content_filter" => r = "stop_sequence"
           /\ f \notin {"stop", "length", "content_filter"} => r = "end_turn"

C19_Witness ==
    /\ Converted
    /\ FirstChoice(openai_data).finish_reason = "tool_calls"
    /\ anthropic_response.stop_reason = "end_turn"

AnsweredOpenAI(r) ==
    gpc = "done" /\ route = r /\ Authorized(header) /\ ~BodyRaises

\* the call was answered without a credential and without the upstream
NothingForwarded == did \cap {"credential", "token", "upstream"} = {}

Rejected400 == resp = Response(400, "invalid_request_error", "openai")

\* C21 (as stated): on /v1/chat/completions and /v1/completions a body that
\* is empty, lacks model or lacks messages is rejected with 400
\* invalid_request_error, and neither a credential fetch nor an upstream
\* call is made for it.
C21_IncompleteRejected ==
    \A r \in {"chat_completions", "completions"} :
        (AnsweredOpenAI(r)
         /\ (~request_json.present \/ ~request_json.model \/ ~request_json.messages))
        => (Rejected400 /\ NothingForwarded)

\* C21 (amended): on /v1/chat/completions a body that is empty, lacks model
\* or lacks messages, and on /v1/completions a body that is empty or lacks
\* model, is rejected with 400 invalid_request_error without a credential
\* fetch or an upstream call; /v1/completions does not look at messages: a
\* body with a model and no messages is answered by the placeholder or
\* forwarded.
C21_IncompleteRejectedByRoute ==
    /\ (AnsweredOpenAI("chat_completions")
        /\ (~request_json.present \/ ~request_json.model \/ ~request_json.messages))
       => (Rejected400 /\ NothingForwarded)
    /\ (AnsweredOpenAI("completions")
        /\ (~request_json.present \/ ~request_json.model))
       => (Rejected400 /\ NothingForwarded)
    /\ (AnsweredOpenAI("completions")
        /\ request_json.model /\ ~request_json.messages)
       => IF placeholder
          THEN resp = Response(200, "ok", "completion") /\ NothingForwarded
          ELSE "upstream" \in did

\* a chat call with a model and no messages was rejected
C21_Witness ==
    /\ AnsweredOpenAI("chat_completions")
    /\ request_json.model /\ ~request_json.messages
    /\ ~placeholder
    /\ Rejected400 /\ NothingForwarded
    /\ response_data = InvalidRequest("messages")

\* the upstream has answered the forwarded request of a call with a status
\* outside 200..299, and the call has been answered
AnsweredNon2xx ==
    /\ gpc = "done"
    /\ target.kind = "response"
    /\ ~(target.status >= 200 /\ target.status < 300)

\* C22: when the upstream answers a forwarded request with a non-2xx status,
\* the response of the gateway carries that status and a body that is the
\* JSON body of the upstream unchanged, or {error: {message: <raw text>}}
\* when the body of the upstream is not JSON; no stream is started.
C22_Non2xxPassedThrough ==
    AnsweredNon2xx =>
        /\ resp.status = target.status
        /\ resp.kind # "stream"
        /\ response_data =
              IF target.json THEN JsonData(target.text)
              ELSE ErrorData("absent", target.text, NoKey)

\* a non-streaming forwarded call whose upstream answered 2xx with a body
\* that response.json() cannot parse has been answered
AnsweredUnparseable ==
    /\ gpc = "done"
    /\ target.kind = "response"
    /\ target.status >= 200 /\ target.status < 300
    /\ ~target.json
    /\ ~Streams

\* C23: for every non-streaming forwarded call in which the upstream answers
\* 2xx with a body that cannot be parsed as JSON, the gateway answers 500
\* with kind invalid_response_error and a preview of the raw body of at most
\* 200 characters; the parse failure is never reported as another kind of
\* error and never leaves the handler.
C23_InvalidResponseError ==
    AnsweredUnparseable =>
        /\ resp.status = 500
        /\ resp.kind = "invalid_response_error"
        /\ response_data.is = "error"
        /\ response_data.type = "invalid_response_error"
        /\ response_data.preview # NoKey
        /\ Len(response_data.preview) <= PreviewLimit

\* C24: error kinds are assigned by cause on every /v1 route: an upstream
\* that cannot be reached or times out is answered 500 connection_error, any
\* other exception on the path of the request 500 api_error, and no
\* exception leaves the route function.  Stated for the calls that carry the
\* gateway secret: connection_error is answered for an exception of the POST
\* to the target endpoint only, and no response is Flask's answer to an
\* unhandled exception.
C24_KindByCause ==
    (gpc = "done" /\ route \in SecuredRoutes /\ Authorized(header)) =>
        /\ (target = NetworkError) =>
              (resp.status = 500 /\ resp.kind = "connection_error")
        /\ (resp.kind = "connection_error") => (target = NetworkError)
        /\ resp # Unhandled

\* a validated call to /v1/chat/completions in placeholder mode has been
\* answered
AnsweredPlaceholder ==
    /\ AnsweredOpenAI("chat_completions")
    /\ placeholder
    /\ request_json.model /\ request_json.messages

\* C25: in placeholder mode every validated call to /v1/chat/completions is
\* answered by the synthetic generator without a credential fetch or an
\* upstream call; the non-streaming answer is a 200 with exactly one choice
\* whose role is assistant and with usage {10, 20, 30}, and apart from its
\* id and its creation time it is a function of the model the request names.
C25_PlaceholderAnswer ==
    AnsweredPlaceholder =>
        /\ NothingForwarded
        /\ target = NoTarget
        /\ resp.status = 200
        /\ request_json.stream => resp = Response(200, "stream", "stream")
        /\ ~request_json.stream =>
              /\ resp = Response(200, "ok", "completion")
              /\ Len(response_data.choices) = 1
              /\ response_data.choices[1].role = "assistant"
              /\ response_data.usage =
                    [prompt_tokens |-> 10, completion_tokens |-> 20,
                     total_tokens |-> 30]
              /\ [response_data EXCEPT !.id = <<>>, !.created = 0]
                    = PlaceholderChatResponse(<<>>, 0, request_json.model_id)

\* a placeholder answer with the second id, the second creation time and the
\* second model
C25_Witness ==
    /\ AnsweredPlaceholder
    /\ ~request_json.stream
    /\ response_data.id = <<ChatPrefix, "q">>
    /\ response_data.created = 2
    /\ response_data.model = "gpt-4o"
    /\ did = {}

\* the credential of a forwarded request has been selected, outside dev mode
Selected == "credential" \in did /\ ~dev_mode

\* the request went to the target endpoint, or "messages" could not be read
\* (an item that is no JSON object): it was not turned away for its
\* credential
NotRejectedForCredential == "upstream" \in did \/ MessagesRaise

\* C26 (as stated): outside dev mode, if OAuth is not configured the
\* forwarded request always carries the static key and the token endpoint is
\* never contacted; if OAuth is configured and get_token() gives no token,
\* the request is still forwarded, with the static key when one is
\* configured and with no Authorization header otherwise, and is never
\* rejected for lack of a credential.
C26_CredentialSelection ==
    Selected =>
        /\ ~oauth_configured =>
              /\ authorization = Bearer(StaticKey)
              /\ "token" \notin did
        /\ (oauth_configured /\ token = NoToken) =>
              /\ authorization = IF api_key_configured THEN Bearer(StaticKey)
                                 ELSE NoAuthorization
              /\ NotRejectedForCredential

\* C26 (amended): outside dev mode, if OAuth is not configured the token
\* endpoint is never contacted and the forwarded request carries the static
\* key when one is configured and no Authorization header otherwise; if
\* OAuth is configured and get_token() gives no token the same holds of its
\* header; in both cases the request is forwarded and never rejected for
\* lack of a credential.
C26_StaticKeyWhenConfigured ==
    Selected =>
        /\ ~oauth_configured =>
              /\ authorization = IF api_key_configured THEN Bearer(StaticKey)
                                 ELSE NoAuthorization
              /\ "token" \notin did
              /\ NotRejectedForCredential
        /\ (oauth_configured /\ token = NoToken) =>
              /\ "token" \in did
              /\ authorization = IF api_key_configured THEN Bearer(StaticKey)
                                 ELSE NoAuthorization
              /\ NotRejectedForCredential

\* OAuth is configured, get_token() gave no token, a static key is
\* configured: the request went upstream with the static key
C26_Witness ==
    /\ Selected
    /\ oauth_configured /\ api_key_configured
    /\ "token" \in did /\ token = NoToken
    /\ authorization = Bearer(StaticKey)
    /\ gpc = "done" /\ target.kind = "response"

\* a thread takes the lock and starts a token fetch in this step
StartsFetch(h) == pc[h] = "wait" /\ pc'[h] = "req1"

\* C27: when the background refresh and get_token() calls are triggered by
\* the same near-expiry or missing token, exactly one fetch is made for it:
\* a trigger that obtains the lock after another has stored a fresh token
\* does not fetch again.  Every fetch, of a request thread or of a Timer,
\* starts with no token stored or with the stored token within the buffer.
C27_NoDuplicateFetch ==
    [][\A h \in Threads : StartsFetch(h) => MustFetch]_vars

\* C28: a 2xx answer of the token endpoint with a malformed body (no JSON, or
\* JSON without an access token) is a failed fetch: no token and no expiry
\* are stored, and so in every reachable state a token is stored if and
\* only if an expiry is.
C28_TokenIffExpiry ==
    (access_token # NoToken) <=> (expires_at # None)

\* a refresh is pending: a Timer is waiting for its instant or, having
\* fired, for the lock
PendingRefresh == {k \in 1..MaxTimers : pc[TimerOf(k)] \in {"armed", "wait"}}

\* C29: after destroy() has returned, and with no later get_token() call, no
\* background fetch is started and no refresh is pending, whatever fetch was
\* in flight and whatever Timer was waiting for the lock when destroy() ran.
C29_NothingAfterDestroy ==
    [][(obs.destroyed /\ ~obs.later) =>
          /\ PendingRefresh = {}
          /\ \A k \in 1..MaxTimers : ~StartsFetch(TimerOf(k))]_vars

\* the Timer has fired, fetched and armed the next one
Refreshed(k) ==
    /\ pc[TimerOf(k)] = "ended"
    /\ refresh_timer > k
    /\ access_token = Token

\* the instant of the Timer lies after the last instant of the clock
BeyondClock(k) == now = LastInstant /\ fireAt[k] > LastInstant

SetId(entry) == entry.id # ""
SetName(entry) == entry.name # ""

\* C31 (as claimed): in accumulated_tool_calls the id, type and function
\* name of a call index, once set, are never overwritten by a later delta
\* for the same index, whatever the later delta carries: only the arguments
\* of an entry change afterwards.
C31_SetOnFirstSight ==
    [][ \A i \in DOMAIN accumulated_tool_calls :
          LET old == accumulated_tool_calls[i]
              new == accumulated_tool_calls'[i]
          IN /\ SetId(old) => (new.id = old.id /\ new.type = old.type)
             /\ SetName(old) => new.name = old.name ]_vars

\* a finish reason has been processed: a line read so far carried one
Finished == \E k \in 1..Len(Received) : FinishSeen(Received[k])

\* C32 (as claimed): once a line carrying a finish reason has been
\* processed, no later line of the stream changes accumulated_tool_calls:
\* no new index, no changed id, type or name, no appended arguments.
C32_FinalAfterFinish ==
    [][ Finished => accumulated_tool_calls' = accumulated_tool_calls ]_vars

\* a line is read and its try block ends in "except Exception"
ReadsFailing ==
    /\ rpc = "read"
    /\ upstream # <<>>
    /\ Fails(Head(upstream))
    /\ chunk_count' = chunk_count + 1

\* C33 (as claimed): a failure to parse the payload of a line never aborts
\* or alters relaying: the line is yielded unchanged, and
\* accumulated_tool_calls and full_response_text keep the value they had
\* before the line.
C33_ParseFailureHarmless ==
    [][ ReadsFailing =>
          /\ rpc' = "yield"
          /\ chunk' = Head(upstream)
          /\ accumulated_tool_calls' = accumulated_tool_calls
          /\ full_response_text' = full_response_text ]_vars

\* the deltas of a failing chunk that were processed: those up to the first
\* one with null arguments
FirstNull(ds) ==
    CHOOSE k \in 1..Len(ds) : ds[k].null /\ \A j \in 1..(k - 1) : ~ds[j].null
Processed(ds) == SubSeq(ds, 1, FirstNull(ds))

\* C33 (amended): a failure in the try block of a line never aborts
\* relaying: the line is yielded unchanged, written to the client and the
\* loop goes on, so that at the end of the upstream the client has received
\* every line.  When the payload is not JSON, accumulated_tool_calls and
\* full_response_text keep their value; when the payload is JSON and the
\* failure is raised while its tool calls are processed, the content of the
\* chunk has been appended to full_response_text, the deltas up to the
\* failing one have been accumulated (their entries created, their
\* arguments appended), and no other entry has changed.
C33_ParseFailureRelayed ==
    [][ /\ ReadsFailing =>
            /\ rpc' = "yield"
            /\ chunk' = Head(upstream)
            /\ ~IsJson(chunk') =>
                  /\ accumulated_tool_calls' = accumulated_tool_calls
                  /\ full_response_text' = full_response_text
            /\ IsJson(chunk') =>
                  /\ full_response_text' = full_response_text \o chunk'.content
                  /\ DOMAIN accumulated_tool_calls' =
                        DOMAIN accumulated_tool_calls
                        \cup {chunk'.deltas[k].index :
                                 k \in 1..FirstNull(chunk'.deltas)}
                  /\ \A i \in DOMAIN accumulated_tool_calls' :
                        ArgumentsSoFar(i)' =
                           ArgumentsSoFar(i)
                           \o DeltaFragments(Processed(chunk'.deltas), i)
        /\ (rpc = "yield" /\ Fails(chunk) /\ client = "connected"
               /\ rpc' # rpc) =>
              (rpc' = "read" /\ sent' = sent \o <<chunk, Blank>>)
        /\ rpc' = "done" => sent' = FramedAll(NonBlank(Wire(events'))) ]_vars

\* a stream of three events has been relayed to its end: a chunk that failed
\* at its tool calls, a payload that is not JSON, and a chunk accumulated
\* after them
C33_Witness ==
    /\ rpc = "done"
    /\ Len(events) = MaxEvents
    /\ Raises(events[1][1])
    /\ events[2] = <<DataLine("A")>>
    /\ events[3] = <<ToolLine(<<Delta(1, "call_b", "g", FragOpen)>>)>>
    /\ full_response_text = Hi
    /\ ArgumentsSoFar(0) = FragClose
    /\ ArgumentsSoFar(1) = FragOpen
    /\ Len(sent) = 6

\* the upstream has answered the forwarded request of the call with a 2xx
Answered2xx ==
    /\ gpc = "done"
    /\ target.kind = "response"
    /\ target.status \in 200..299

\* C34 (as claimed): whenever the stream flag of the request is true and the
\* upstream answers 2xx, on /v1/chat/completions as well as on /v1/messages,
\* the relay is activated and the client receives HTTP 200 with the relayed
\* event stream.
C34_StreamOnBothRoutes ==
    (Answered2xx /\ Streams) => resp = Response(200, "stream", "stream")

\* the forwarding step of a call to /v1/messages has sent openai_request to
\* the upstream
SentUpstream == route = "messages" /\ "upstream" \in did

\* the conversation messages of the call whose reduced content has a
\* character that is not white space
NonEmpty ==
    SelectSeq(anthropic_request.messages,
              LAMBDA m : ~OnlyWhiteSpace(Reduce(m.content)))

\* C35: no conversation message whose reduced content is empty or white
\* space only is part of the request that /v1/messages sends upstream; every
\* other conversation message is part of it, in its place, with its role and
\* its reduced content; the forwarded list of messages is never empty.
C35_NoEmptyMessageForwarded ==
    SentUpstream =>
        /\ \A j \in 1..Len(Conversation) :
              ~OnlyWhiteSpace(Conversation[j].content)
        /\ Conversation =
              [j \in 1..Len(NonEmpty) |->
                  [role |-> NonEmpty[j].role,
                   content |-> Reduce(NonEmpty[j].content)]]
        /\ openai_request.messages # <<>>

\* a request with a message of white space and a message with text has been
\* sent upstream
C35_Witness ==
    /\ SentUpstream
    /\ gpc = "done"
    /\ anthropic_request.messages =
          <<Message("user", StrContent(<<" ">>)),
            Message("assistant", ListContent(<<Block("tool_use", TRUE, X), TextBlock(Hi)>>))>>
    /\ Conversation = <<[role |-> "assistant", content |-> Hi]>>

\* the forwarding step of a call to /v1/chat/completions has sent
\* request_data to the upstream
Forwarded == route = "chat_completions" /\ "upstream" \in did

\* C36 (as claimed): on the OpenAI route, if a default max_tokens is
\* configured and the request omits max_tokens, the forwarded request
\* carries the default; if the request specifies max_tokens, its value is
\* forwarded unchanged; if no default is configured nothing is injected;
\* and no field other than max_tokens is changed by this normalization.
C36_MaxTokensNormalized ==
    Forwarded =>
        /\ (config_max_tokens # None /\ request_json.max_tokens = Missing)
              => request_data.max_tokens = config_max_tokens
        /\ request_json.max_tokens # Missing
              => request_data.max_tokens = request_json.max_tokens
        /\ config_max_tokens = None
              => request_data.max_tokens = request_json.max_tokens
        /\ [request_data EXCEPT !.max_tokens = Missing, !.temperature = Missing]
              = [request_json EXCEPT !.max_tokens = Missing,
                                     !.temperature = Missing]

\* C37: on the OpenAI route, temperature is removed from the forwarded
\* request if and only if the strip-zero-temperature policy is enabled and
\* the request specifies temperature equal to 0; with the policy disabled,
\* or with any other temperature, the field is forwarded unchanged, whatever
\* the max_tokens normalization does; no other field but max_tokens differs.
C37_ZeroTemperatureStripped ==
    Forwarded =>
        LET zero == strip_zero_temperature /\ request_json.temperature = 0
        IN /\ zero => request_data.temperature = Missing
           /\ ~zero => request_data.temperature = request_json.temperature
           /\ [request_data EXCEPT !.max_tokens = Missing, !.temperature = Missing]
                 = [request_json EXCEPT !.max_tokens = Missing,
                                        !.temperature = Missing]

\* a request with temperature 0 and its own max_tokens has been forwarded
\* without temperature, under the policy
C37_Witness ==
    /\ Forwarded
    /\ gpc = "done"
    /\ strip_zero_temperature
    /\ request_json.temperature = 0
    /\ request_json.max_tokens = 5
    /\ request_data.temperature = Missing
    /\ request_data.max_tokens = 5

\* C38: each inbound call to /v1/chat/completions, /v1/completions or
\* /v1/messages causes at most one request to the target, whatever its
\* outcome (a network error or timeout, a status of 400 or above, a body
\* that is no JSON): the forwarding step is entered once and posts once,
\* and an answered call has posted exactly once.
C38_AtMostOnePost ==
    /\ posted <= 1
    /\ posted = 1 <=> "upstream" \in did
    /\ target # NoTarget => posted = 1

\* a call on /v1/messages whose one request the upstream answered with 503
\* has been answered
C38_Witness ==
    /\ gpc = "done"
    /\ route = "messages"
    /\ target.kind = "response"
    /\ target.status = 503
    /\ posted = 1
    /\ resp.status = 503

\* the body of a response holds the gateway secret
Discloses(data) ==
    "accessToken" \in DOMAIN data /\ data.accessToken = GatewaySecret

\* C39 (as claimed): on every route of the server, the response to a request
\* that has not presented the gateway secret does not contain the gateway
\* secret.
C39_SecretNotDisclosed ==
    (gpc = "done" /\ ~Authorized(header)) => ~Discloses(response_data)

====
